---------------------------- MODULE Spec2Model ----------------------------
(***************************************************************************)
(* A model of the film catalog format converter                            *)
(* (scripts/catalog_format_converter/catalog_format_converter.py).         *)
(*                                                                         *)
(* Text is modelled as TLA+ strings, handled character by character.  The  *)
(* regular expressions of the source are written down as data (sequences   *)
(* of atoms) and run by a backtracking matcher that follows Python's re    *)
(* semantics: leftmost match, alternatives in order, greedy or lazy        *)
(* repetition with backtracking.                                           *)
(***************************************************************************)
EXTENDS Integers, Sequences, FiniteSets, TLC

(***************************************************************************)
(* Characters and Python's str methods                                     *)
(***************************************************************************)
Ch(s, i) == SubSeq(s, i, i)

UpperChars == "ABCDEFGHIJKLMNOPQRSTUVWXYZ"
LowerChars == "abcdefghijklmnopqrstuvwxyz"
DigitChars == "0123456789"

\* the characters of a string, as a set
CharSet(chars) == {Ch(chars, k) : k \in 1..Len(chars)}
\* whitespace that occurs within a line
SpaceSet == {" ", "\t"}
\* [A-Z], [a-z], \d and \w
ClassSet ==
    [upper |-> CharSet(UpperChars), lower |-> CharSet(LowerChars),
     digit |-> CharSet(DigitChars),
     word  |-> CharSet(UpperChars \o LowerChars \o DigitChars \o "_")]

\* c.lower() of the upper-case letters
LowerMap ==
    [c \in ClassSet.upper |->
       Ch(LowerChars, CHOOSE k \in 1..Len(UpperChars) : Ch(UpperChars, k) = c)]

LowerCh(c) == IF c \in ClassSet.upper THEN LowerMap[c] ELSE c

\* F applied to the value x: a local name for a value that is used several
\* times, as an assignment to a local variable is in the source
With(x, F(_)) == F(x)

\* the least k in lo..hi with P(k), hi + 1 when there is none
FirstIdx(lo, hi, P(_)) ==
    IF \E k \in lo..hi : P(k)
    THEN CHOOSE k \in lo..hi : P(k) /\ \A j \in lo..(k - 1) : ~P(j)
    ELSE hi + 1

\* the greatest k in lo..hi with P(k), lo - 1 when there is none
LastIdx(lo, hi, P(_)) ==
    IF \E k \in lo..hi : P(k)
    THEN CHOOSE k \in lo..hi : P(k) /\ \A j \in (k + 1)..hi : ~P(j)
    ELSE lo - 1

\* str.lower(): character by character (the two halves of s, each lowered)
RECURSIVE Lower(_)
Lower(s) ==
    IF Len(s) = 0 THEN ""
    ELSE IF Len(s) = 1 THEN LowerCh(s)
    ELSE Lower(SubSeq(s, 1, Len(s) \div 2)) \o Lower(SubSeq(s, Len(s) \div 2 + 1, Len(s)))

\* s[i:] with a 0-based Python index i
From(s, i) == SubSeq(s, i + 1, Len(s))

\* index of the first character from i on that is not in set, Len(s)+1 if none
FirstNotIn(s, i, set) == FirstIdx(i, Len(s), LAMBDA k : Ch(s, k) \notin set)

\* index of the last character up to i that is not in set, 0 if none
LastNotIn(s, i, set) == LastIdx(1, i, LAMBDA k : Ch(s, k) \notin set)

\* str.strip(chars)
StripSet(s, set) == SubSeq(s, FirstNotIn(s, 1, set), LastNotIn(s, Len(s), set))

\* str.strip()
Strip(s) == StripSet(s, SpaceSet)

\* str.rstrip(chars)
RStripSet(s, set) == SubSeq(s, 1, LastNotIn(s, Len(s), set))

\* str.lstrip(chars)
LStripSet(s, set) == SubSeq(s, FirstNotIn(s, 1, set), Len(s))

\* str.startswith(p)
StartsWith(s, p) == Len(p) <= Len(s) /\ SubSeq(s, 1, Len(p)) = p

\* str.endswith(p)
EndsWith(s, p) == Len(p) <= Len(s) /\ SubSeq(s, Len(s) - Len(p) + 1, Len(s)) = p

\* 1-based index of the first occurrence of sub in s at or after i, 0 when
\* there is none
FindFrom(s, sub, i) ==
    With(FirstIdx(i, Len(s) - Len(sub) + 1,
                  LAMBDA k : SubSeq(s, k, k + Len(sub) - 1) = sub),
         LAMBDA k : IF k > Len(s) - Len(sub) + 1 THEN 0 ELSE k)

\* str.find(sub) + 1
Find(s, sub) == FindFrom(s, sub, 1)

\* sub in s
Contains(s, sub) == Find(s, sub) > 0

\* s.split(sep, 1)[0] and s.split(sep, 1)[1], for sep in s
SplitHead(s, sep) == SubSeq(s, 1, Find(s, sep) - 1)
SplitTail(s, sep) == SubSeq(s, Find(s, sep) + Len(sep), Len(s))

\* bool(s): a non-empty string is truthy
Truthy(s) == s # ""

(***************************************************************************)
(* Regular expressions (Python's re)                                       *)
(***************************************************************************)
\* Atoms of a pattern.  A pattern is a sequence of atoms.
Lit(str)              == [t |-> "lit", s |-> str]
Rep(cls, lo, hi)      == [t |-> "rep", c |-> cls, lo |-> lo, hi |-> hi, g |-> TRUE]
Lazy(cls, lo, hi)     == [t |-> "rep", c |-> cls, lo |-> lo, hi |-> hi, g |-> FALSE]
Alt(seqs)             == [t |-> "alt", a |-> seqs]
Grp(name, seq)        == [t |-> "grp", n |-> name, r |-> seq]
Opt(seq)              == Alt(<<seq, <<>>>>)
WB                    == [t |-> "wb"]
Eol                   == [t |-> "eol"]
Bol                   == [t |-> "bol"]
\* hi of an unbounded repetition (*, +)
Unbounded == 0 - 1

\* Character classes: \s, \d, ., [a-z], [A-Za-z]; any other class is the
\* string of its members, as in [/-].
InClass(c, cls, ci) ==
    CASE cls = "\\s"     -> c \in SpaceSet
      [] cls = "\\d"     -> c \in ClassSet.digit
      [] cls = "."       -> TRUE
      [] cls = "[a-z]"   -> c \in ClassSet.lower \/ (ci /\ c \in ClassSet.upper)
      [] cls = "[A-Za-z]" -> c \in ClassSet.lower \cup ClassSet.upper
      [] OTHER           -> Contains(cls, c)

\* how many characters of class cls follow position i, at most hi
RunLen(s, i, cls, ci, hi) ==
    IF i > Len(s) THEN 0
    ELSE FirstIdx(i, IF hi < 0 \/ i + hi - 1 > Len(s) THEN Len(s) ELSE i + hi - 1,
                  LAMBDA k : ~InClass(Ch(s, k), cls, ci)) - i

IsWordAt(s, i) == i >= 1 /\ i <= Len(s) /\ Ch(s, i) \in ClassSet.word

NoMatch == [ok |-> FALSE, b |-> 0, e |-> 0, g |-> <<>>]

RECURSIVE M(_, _, _, _, _)
RECURSIVE TryCounts(_, _, _, _, _, _, _, _)
RECURSIVE TryAlts(_, _, _, _, _, _, _)

\* Match pattern r on s from position i (1-based; Len(s)+1 is the end),
\* with the groups captured so far; ci is re.IGNORECASE.
M(r, s, i, g, ci) ==
    IF r = <<>> THEN [ok |-> TRUE, b |-> 0, e |-> i, g |-> g]
    ELSE LET a == Head(r)
             rest == Tail(r)
         IN CASE a.t = "lit" ->
                   LET sub == SubSeq(s, i, i + Len(a.s) - 1)
                   IN IF i + Len(a.s) - 1 <= Len(s)
                         /\ (IF ci THEN Lower(sub) = Lower(a.s) ELSE sub = a.s)
                      THEN M(rest, s, i + Len(a.s), g, ci)
                      ELSE NoMatch
              [] a.t = "rep" ->
                   LET k == RunLen(s, i, a.c, ci, a.hi)
                   IN IF k < a.lo THEN NoMatch
                      ELSE IF a.g THEN TryCounts(rest, s, i, g, ci, k, a.lo, -1)
                      ELSE TryCounts(rest, s, i, g, ci, a.lo, k, 1)
              [] a.t = "alt"  -> TryAlts(a.a, rest, s, i, g, ci, 1)
              [] a.t = "grp"  ->
                   M(<<[t |-> "open", n |-> a.n]>> \o a.r
                       \o <<[t |-> "close", n |-> a.n]>> \o rest, s, i, g, ci)
              [] a.t = "open" -> M(rest, s, i, (("<" \o a.n) :> i) @@ g, ci)
              [] a.t = "close" ->
                   M(rest, s, i, (a.n :> <<g["<" \o a.n], i>>) @@ g, ci)
              [] a.t = "wb" ->
                   IF IsWordAt(s, i - 1) # IsWordAt(s, i)
                   THEN M(rest, s, i, g, ci) ELSE NoMatch
              [] a.t = "eol" ->
                   IF i = Len(s) + 1 THEN M(rest, s, i, g, ci) ELSE NoMatch
              [] a.t = "bol" ->
                   IF i = 1 THEN M(rest, s, i, g, ci) ELSE NoMatch

\* a repetition taking k characters, then k+step, ... up to last
TryCounts(rest, s, i, g, ci, k, last, step) ==
    LET res == M(rest, s, i + k, g, ci)
    IN IF res.ok THEN res
       ELSE IF k = last THEN NoMatch
       ELSE TryCounts(rest, s, i, g, ci, k + step, last, step)

TryAlts(alts, rest, s, i, g, ci, n) ==
    IF n > Len(alts) THEN NoMatch
    ELSE LET res == M(alts[n] \o rest, s, i, g, ci)
         IN IF res.ok THEN res ELSE TryAlts(alts, rest, s, i, g, ci, n + 1)

\* re.match(r, s)
ReMatch(r, s, ci) == [M(r, s, 1, <<>>, ci) EXCEPT !.b = 1]

\* re.search(r, s): the match at the leftmost position that has one
ReSearch(r, s, ci) ==
    With(FirstIdx(1, Len(s) + 1, LAMBDA i : M(r, s, i, <<>>, ci).ok), LAMBDA b :
      IF b > Len(s) + 1 THEN NoMatch ELSE [M(r, s, b, <<>>, ci) EXCEPT !.b = b])

\* m.group(name) of a successful match; "" for a group that took no part
Group(res, s, name) ==
    IF name \in DOMAIN res.g THEN SubSeq(s, res.g[name][1], res.g[name][2] - 1)
    ELSE ""

\* m.group(0)
Group0(res, s) == SubSeq(s, res.b, res.e - 1)

\* re.sub(r, "", s) for a pattern anchored at the start (at most one match)
ReSubPrefix(r, s, ci) ==
    With(ReMatch(r, s, ci), LAMBDA res : IF res.ok THEN SubSeq(s, res.e, Len(s)) ELSE s)

(***************************************************************************)
(* Numbers in text                                                         *)
(***************************************************************************)
RECURSIVE ToIntAcc(_, _, _)
ToIntAcc(s, i, acc) ==
    IF i > Len(s) THEN acc
    ELSE ToIntAcc(s, i + 1, acc * 10 + (Find(DigitChars, Ch(s, i)) - 1))

\* int(s) for a string of digits
ToInt(s) == ToIntAcc(s, 1, 0)

RECURSIVE IntStr(_)
\* str(n), n >= 0
IntStr(n) == IF n < 10 THEN Ch(DigitChars, n + 1)
             ELSE IntStr(n \div 10) \o Ch(DigitChars, (n % 10) + 1)

\* f"{n:02d}"
Pad2(n) == IF n < 10 THEN "0" \o IntStr(n) ELSE IntStr(n)

(***************************************************************************)
(* KNOWN_CAMERAS and the camera helpers                                    *)
(***************************************************************************)
KNOWN_CAMERAS ==
    <<"Nikon N80", "Minolta SR-T101 silver", "Minolta SR-T101 black",
      "Minolta X-700", "Halina 35X">>

\* the value None of an "str | None" result
None == "<None>"

\* for cam in KNOWN_CAMERAS: if pred(cam): return cam
FirstCamera(P(_)) ==
    IF \E k \in 1..Len(KNOWN_CAMERAS) : P(KNOWN_CAMERAS[k])
    THEN KNOWN_CAMERAS[CHOOSE k \in 1..Len(KNOWN_CAMERAS) :
                         /\ P(KNOWN_CAMERAS[k])
                         /\ \A j \in 1..(k - 1) : ~P(KNOWN_CAMERAS[j])]
    ELSE None

\* heuristics that know one finish of the Minolta SR-T101
CameraHeuristics_OneFinish(low) ==
    IF ReSearch(<<WB, Lit("n80"), WB>>, low, FALSE).ok THEN "Nikon N80"
    ELSE IF Contains(low, "x-700") \/ Contains(low, "x700") THEN "Minolta X-700"
    ELSE IF Contains(low, "minolta") THEN "Minolta SR-T101 silver"
    ELSE IF Contains(low, "halina") THEN "Halina 35X"
    ELSE None

\* "3) Heuristics" of _canonical_camera; the pattern is r"\bn80\b"
CameraHeuristics(low) ==
    IF ReSearch(<<WB, Lit("n80"), WB>>, low, FALSE).ok THEN "Nikon N80"
    ELSE IF Contains(low, "x-700") \/ Contains(low, "x700") THEN "Minolta X-700"
    ELSE IF Contains(low, "minolta")
            /\ (\/ (Contains(low, "sr") /\ Contains(low, "t101"))
                \/ Contains(low, "srt-101")
                \/ Contains(low, "srt101")
                \/ Contains(low, "sr-t101"))
    THEN (IF Contains(low, "black") THEN "Minolta SR-T101 black"
          ELSE "Minolta SR-T101 silver")
    ELSE IF Contains(low, "minolta") THEN "Minolta SR-T101 silver"
    ELSE IF Contains(low, "halina") THEN "Halina 35X"
    ELSE None

\* a _canonical_camera that tries the heuristics before the substring match
_canonical_camera_HeuristicsFirst(raw) ==
    IF ~Truthy(raw) THEN None
    ELSE With(Lower(Strip(raw)), LAMBDA low :
      With(FirstCamera(LAMBDA cam : low = Lower(cam)), LAMBDA exact :
        IF exact # None THEN exact
        ELSE IF CameraHeuristics(low) # None THEN CameraHeuristics(low)
        ELSE FirstCamera(LAMBDA cam : Contains(low, Lower(cam)))))

\* exact match, then substring match, then the heuristics
_canonical_camera(raw) ==
    IF ~Truthy(raw) THEN None
    ELSE With(Lower(Strip(raw)), LAMBDA low :
      With(FirstCamera(LAMBDA cam : low = Lower(cam)), LAMBDA exact :
        IF exact # None THEN exact
        ELSE With(FirstCamera(LAMBDA cam : Contains(low, Lower(cam))), LAMBDA sub :
               IF sub # None THEN sub ELSE CameraHeuristics(low))))

_find_known_camera_in_text(text) ==
    IF ~Truthy(text) THEN None
    ELSE With(FirstCamera(LAMBDA cam : Contains(Lower(text), Lower(cam))), LAMBDA sub :
           IF sub # None THEN sub ELSE _canonical_camera(text))

\* the patterns of _looks_like_lens
LensRe ==
    [\* r"\b\d{2,3}\s*mm\b"
     focal |-> <<WB, Rep("\\d", 2, 3), Rep("\\s", 0, Unbounded), Lit("mm"), WB>>,
     \* r"\bf\s*/?\s*\d+(\.\d+)?"
     fstop_slash |->
       <<WB, Lit("f"), Rep("\\s", 0, Unbounded), Rep("/", 0, 1), Rep("\\s", 0, Unbounded),
         Rep("\\d", 1, Unbounded), Opt(<<Lit("."), Rep("\\d", 1, Unbounded)>>)>>,
     \* r"\bf\d+(\.\d+)?"
     fstop |->
       <<WB, Lit("f"), Rep("\\d", 1, Unbounded),
         Opt(<<Lit("."), Rep("\\d", 1, Unbounded)>>)>>]

_looks_like_lens(text) ==
    IF ~Truthy(text) THEN FALSE
    ELSE With(Lower(text), LAMBDA low :
           \/ Contains(low, "lens")
           \/ Contains(low, "fisheye") \/ Contains(low, "teleconverter")
           \/ Contains(low, "pancake")
           \/ ReSearch(LensRe.focal, low, FALSE).ok
           \/ ReSearch(LensRe.fstop_slash, low, FALSE).ok
           \/ ReSearch(LensRe.fstop, low, FALSE).ok)

\* (?:around|at|in)
LocCue == Alt(<<<<Lit("around")>>, <<Lit("at")>>, <<Lit("in")>>>>)

\* re.match(r"^\s*(?:around|at|in)\b", text.strip(), re.IGNORECASE)
_is_location_phrase(text) ==
    IF ~Truthy(text) THEN FALSE
    ELSE ReMatch(<<Bol, Rep("\\s", 0, Unbounded), LocCue, WB>>, Strip(text), TRUE).ok

(***************************************************************************)
(* normalize_date                                                          *)
(***************************************************************************)
\* (?:Jan|Feb|Mar|Apr|May|Jun|Jul|Aug|Sep|Oct|Nov|Dec)
MonthAbbr ==
    Alt(<<<<Lit("Jan")>>, <<Lit("Feb")>>, <<Lit("Mar")>>, <<Lit("Apr")>>,
          <<Lit("May")>>, <<Lit("Jun")>>, <<Lit("Jul")>>, <<Lit("Aug")>>,
          <<Lit("Sep")>>, <<Lit("Oct")>>, <<Lit("Nov")>>, <<Lit("Dec")>>>>)

\* self.date_pattern, re.IGNORECASE
date_pattern ==
    <<Grp("1", <<Alt(<<
        <<Rep("\\d", 1, 2), Rep("/-", 1, 1), Rep("\\d", 1, 2), Rep("/-", 1, 1),
          Rep("\\d", 2, 4)>>,
        <<Rep("\\d", 4, 4), Lit("-"), Rep("\\d", 1, 2), Lit("-"), Rep("\\d", 1, 2)>>,
        <<MonthAbbr, Rep("[a-z]", 0, Unbounded), Rep("\\s", 1, Unbounded),
          Rep("\\d", 1, 2), Rep(",", 0, 1), Rep("\\s", 1, Unbounded), Rep("\\d", 2, 4)>>,
        <<Rep("\\d", 1, 2), Rep("\\s", 1, Unbounded), MonthAbbr,
          Rep("[a-z]", 0, Unbounded), Rep("\\s", 1, Unbounded), Rep("\\d", 2, 4)>>
      >>)>>)>>

\* the patterns of normalize_date
DateRe ==
    [\* r"likely\s+(\d{4})", re.IGNORECASE
     likely |-> <<Lit("likely"), Rep("\\s", 1, Unbounded), Grp("1", <<Rep("\\d", 4, 4)>>)>>,
     \* r"^(?:expiration|expires):?\s*", re.IGNORECASE
     prefix |-> <<Bol, Alt(<<<<Lit("expiration")>>, <<Lit("expires")>>>>), Rep(":", 0, 1),
                  Rep("\\s", 0, Unbounded)>>,
     \* r"(\d{4})-(\d{1,2})-(\d{1,2})$"
     ymd |-> <<Grp("1", <<Rep("\\d", 4, 4)>>), Lit("-"), Grp("2", <<Rep("\\d", 1, 2)>>),
               Lit("-"), Grp("3", <<Rep("\\d", 1, 2)>>), Eol>>,
     \* r"(\d{1,2})[/-](\d{1,2})[/-](\d{2,4})$"
     mdy |-> <<Grp("1", <<Rep("\\d", 1, 2)>>), Rep("/-", 1, 1),
               Grp("2", <<Rep("\\d", 1, 2)>>), Rep("/-", 1, 1),
               Grp("3", <<Rep("\\d", 2, 4)>>), Eol>>,
     \* r"^(\d{1,2})[/-](\d{2,4})$"
     my |-> <<Bol, Grp("1", <<Rep("\\d", 1, 2)>>), Rep("/-", 1, 1),
              Grp("2", <<Rep("\\d", 2, 4)>>), Eol>>,
     \* r"([A-Za-z]+)\s+(\d{1,2}),?\s+(\d{2,4})$"
     mon_dy |-> <<Grp("1", <<Rep("[A-Za-z]", 1, Unbounded)>>), Rep("\\s", 1, Unbounded),
                  Grp("2", <<Rep("\\d", 1, 2)>>), Rep(",", 0, 1),
                  Rep("\\s", 1, Unbounded), Grp("3", <<Rep("\\d", 2, 4)>>), Eol>>,
     \* r"(\d{1,2})\s+([A-Za-z]+)\s+(\d{2,4})$"
     d_mon_y |-> <<Grp("1", <<Rep("\\d", 1, 2)>>), Rep("\\s", 1, Unbounded),
                   Grp("2", <<Rep("[A-Za-z]", 1, Unbounded)>>), Rep("\\s", 1, Unbounded),
                   Grp("3", <<Rep("\\d", 2, 4)>>), Eol>>]


month_map ==
    [jan |-> "01", january |-> "01", feb |-> "02", february |-> "02",
     mar |-> "03", march |-> "03", apr |-> "04", april |-> "04", may |-> "05",
     jun |-> "06", june |-> "06", jul |-> "07", july |-> "07", aug |-> "08",
     august |-> "08", sep |-> "09", sept |-> "09", september |-> "09",
     oct |-> "10", october |-> "10", nov |-> "11", november |-> "11",
     dec |-> "12", december |-> "12"]

\* y = f"20{y}" if int(y) <= 30 else f"19{y}", for a two-digit year
FullYear(y) ==
    IF Len(y) = 2 THEN (IF ToInt(y) <= 30 THEN "20" \o y ELSE "19" \o y) ELSE y

\* "Month DD, YYYY" and "DD Month YYYY": s is ds_clean, ds the value returned
\* when neither matches
NormalizeNamed(s, ds) ==
    With(ReMatch(DateRe.mon_dy, s, FALSE), LAMBDA m :
      IF m.ok /\ Lower(Group(m, s, "1")) \in DOMAIN month_map
      THEN FullYear(Group(m, s, "3")) \o "-" \o month_map[Lower(Group(m, s, "1"))]
             \o "-" \o Pad2(ToInt(Group(m, s, "2")))
      ELSE With(ReMatch(DateRe.d_mon_y, s, FALSE), LAMBDA m2 :
             IF m2.ok /\ Lower(Group(m2, s, "2")) \in DOMAIN month_map
             THEN FullYear(Group(m2, s, "3")) \o "-" \o month_map[Lower(Group(m2, s, "2"))]
                    \o "-" \o Pad2(ToInt(Group(m2, s, "1")))
             ELSE ds))

\* the numeric formats: s is ds_clean
NormalizeClean(s, ds) ==
    With(ReMatch(DateRe.ymd, s, FALSE), LAMBDA ymd :
      IF ymd.ok
      THEN Group(ymd, s, "1") \o "-" \o Pad2(ToInt(Group(ymd, s, "2")))
             \o "-" \o Pad2(ToInt(Group(ymd, s, "3")))
      ELSE With(ReMatch(DateRe.mdy, s, FALSE), LAMBDA mdy :
             IF mdy.ok
             THEN FullYear(Group(mdy, s, "3")) \o "-" \o Pad2(ToInt(Group(mdy, s, "1")))
                    \o "-" \o Pad2(ToInt(Group(mdy, s, "2")))
             ELSE With(ReMatch(DateRe.my, s, FALSE), LAMBDA my :
                    IF my.ok
                    THEN FullYear(Group(my, s, "2")) \o "-"
                           \o Pad2(ToInt(Group(my, s, "1"))) \o "-01"
                    ELSE NormalizeNamed(s, ds))))

normalize_date(date_str) ==
    IF ~Truthy(date_str) THEN ""
    ELSE With(Strip(date_str), LAMBDA ds :
      IF Contains(Lower(ds), "unknown")
      THEN With(ReSearch(DateRe.likely, ds, TRUE), LAMBDA likely :
             IF likely.ok THEN "Unknown, likely " \o Group(likely, ds, "1")
             ELSE "Unknown")
      ELSE NormalizeClean(Strip(ReSubPrefix(DateRe.prefix, ds, TRUE)), ds))

(***************************************************************************)
(* FilmEntry                                                               *)
(***************************************************************************)
\* FilmEntry(): every field defaults to ""
FilmEntry ==
    [filmstock |-> "", iso |-> "", exposures |-> "", expiration |-> "",
     loaded_date |-> "", camera |-> "", lens |-> "", filter |-> "", notes |-> "",
     subject |-> "", shot_location |-> "", ready_date |-> "",
     developed_date |-> "", developed_location |-> "", roll_num |-> "",
     quantity |-> ""]

\* f"{notes}; {frag}".strip("; ").strip() if notes else frag
NoteJoin(notes, frag) ==
    IF Truthy(notes) THEN Strip(StripSet(notes \o "; " \o frag, {";", " "}))
    ELSE frag

(***************************************************************************)
(* _parse_old_sub_entry                                                    *)
(***************************************************************************)
\* the patterns of _parse_old_sub_entry, all re.IGNORECASE
OldRe ==
    [\* r"\b(\d+)\s+exposure(s)?\b"
     exposures |->
       <<WB, Grp("1", <<Rep("\\d", 1, Unbounded)>>), Rep("\\s", 1, Unbounded),
         Lit("exposure"), Opt(<<Grp("2", <<Lit("s")>>)>>), WB>>,
     \* r"^expiration:?\s*"
     expiration |-> <<Bol, Lit("expiration"), Rep(":", 0, 1), Rep("\\s", 0, Unbounded)>>,
     \* r"\b(?:around|at|in)\s+(?P<loc>.+)$"
     shot_loc |->
       <<WB, LocCue, Rep("\\s", 1, Unbounded), Grp("loc", <<Rep(".", 1, Unbounded)>>),
         Eol>>,
     \* r"\bwith\s+(?P<with>.+)$"
     shot_with |->
       <<WB, Lit("with"), Rep("\\s", 1, Unbounded),
         Grp("with", <<Rep(".", 1, Unbounded)>>), Eol>>]

\* content = line[6:].strip()
SubContent(line) == Strip(From(line, 6))

\* an "Expiration/Expires" branch that stores every value in the typed field
ExpirationOrNote_Typed(raw_val, entry) ==
    [entry EXCEPT !.expiration = normalize_date(raw_val)]

\* the "Expiration/Expires" branch, from raw_val on
ExpirationOrNote(raw_val, entry) ==
    IF ~Truthy(raw_val) \/ Contains(Lower(raw_val), "unknown")
    THEN [entry EXCEPT !.notes =
            NoteJoin(entry.notes,
                     "Expiration info: " \o (IF Truthy(raw_val) THEN raw_val ELSE "Unknown"))]
    ELSE [entry EXCEPT !.expiration = normalize_date(raw_val)]

\* the "Expiration/Expires" branch
OldExpiration(content, lcl, entry) ==
    ExpirationOrNote(IF StartsWith(lcl, "expires")
                     THEN (IF Contains(content, " ") THEN Strip(SplitTail(content, " "))
                           ELSE "")
                     ELSE Strip(ReSubPrefix(OldRe.expiration, content, TRUE)),
                     entry)

\* the first date of text stored in field, when there is one
StoreDate(entry, field, text) ==
    With(ReSearch(date_pattern, text, TRUE), LAMBDA dm :
      IF dm.ok THEN [entry EXCEPT ![field] = normalize_date(Group(dm, text, "1"))]
      ELSE entry)

\* the "Loaded" branch after the first date search: " in CAMERA [with LENS]",
\* else a date after "on "
LoadedCamera(loaded_text, e1) ==
    IF Contains(loaded_text, " in ")
    THEN With(SplitTail(loaded_text, " in "), LAMBDA segment :
           IF Contains(segment, " with ")
           THEN [e1 EXCEPT !.camera = Strip(SplitHead(segment, " with ")),
                           !.lens = Strip(SplitTail(segment, " with "))]
           ELSE [e1 EXCEPT !.camera = Strip(segment)])
    ELSE IF Contains(loaded_text, "on ")
    THEN StoreDate(e1, "loaded_date", SplitTail(loaded_text, "on "))
    ELSE e1

\* the "Loaded" branch
OldLoaded(content, entry) ==
    With(Strip(From(content, 7)), LAMBDA loaded_text :
      LoadedCamera(loaded_text, StoreDate(entry, "loaded_date", loaded_text)))

\* the location cue of the "Shot" branch
ShotLocation(shot_text, entry) ==
    With(ReSearch(OldRe.shot_loc, shot_text, TRUE), LAMBDA loc_match :
      IF loc_match.ok
      THEN [entry EXCEPT !.shot_location = Strip(Group(loc_match, shot_text, "loc"))]
      ELSE entry)

\* "with X": X is a camera, a lens, or the line goes to notes
ShotWith(with_val, content, e1) ==
    With(_find_known_camera_in_text(with_val), LAMBDA cam_found :
      IF cam_found # None THEN [e1 EXCEPT !.camera = cam_found]
      ELSE IF _looks_like_lens(with_val) THEN [e1 EXCEPT !.lens = with_val]
      ELSE [e1 EXCEPT !.notes = NoteJoin(e1.notes, content)])

\* the camera cues of the "Shot" branch: "with X", else a camera named
\* anywhere in the text
ShotCamera(shot_text, content, e1) ==
    With(ReSearch(OldRe.shot_with, shot_text, TRUE), LAMBDA with_match :
      IF with_match.ok
      THEN ShotWith(Strip(Group(with_match, shot_text, "with")), content, e1)
      ELSE With(_find_known_camera_in_text(shot_text), LAMBDA cam_found2 :
             IF cam_found2 # None THEN [e1 EXCEPT !.camera = cam_found2] ELSE e1))

\* "if not any([entry.shot_location, entry.camera, entry.lens])"
ShotFallback(content, e2) ==
    IF ~Truthy(e2.shot_location) /\ ~Truthy(e2.camera) /\ ~Truthy(e2.lens)
    THEN [e2 EXCEPT !.notes = NoteJoin(e2.notes, content)]
    ELSE e2

\* the "Shot ... location/camera cues" branch
OldShot(content, entry) ==
    With(Strip(From(content, 5)), LAMBDA shot_text :
      ShotFallback(content,
                   ShotCamera(shot_text, content, ShotLocation(shot_text, entry))))

\* the "Developed DATE at LOCATION" branch
OldDeveloped(content, entry) ==
    With(Strip(From(content, 10)), LAMBDA dev_text :
      With(StoreDate(entry, "developed_date", dev_text), LAMBDA e1 :
        IF Contains(dev_text, " at ")
        THEN [e1 EXCEPT !.developed_location = Strip(SplitTail(dev_text, " at "))]
        ELSE e1))

\* content.split(":", 1)[1].strip() if ":" in content else content[n:].strip()
AfterColonOr(content, n) ==
    IF Contains(content, ":") THEN Strip(SplitTail(content, ":"))
    ELSE Strip(From(content, n))

\* the "Ready M/D/YY" branch
OldReady(content, entry) ==
    With(ReSearch(date_pattern, content, TRUE), LAMBDA ready :
      IF ready.ok
      THEN [entry EXCEPT !.ready_date = normalize_date(Group(ready, content, "1"))]
      ELSE [entry EXCEPT !.notes = NoteJoin(entry.notes, content)])

\* the branches of _parse_old_sub_entry after "ISO" and "N exposures"
OldKeyword(content, lcl, entry) ==
    IF Contains(lcl, "expiration") \/ StartsWith(lcl, "expires")
    THEN OldExpiration(content, lcl, entry)
    ELSE IF StartsWith(lcl, "loaded ") THEN OldLoaded(content, entry)
    ELSE IF StartsWith(lcl, "shot on ")
    THEN [entry EXCEPT !.camera = Strip(From(content, 8))]
    ELSE IF StartsWith(lcl, "shot ") THEN OldShot(content, entry)
    ELSE IF Contains(lcl, "ready") THEN OldReady(content, entry)
    ELSE IF StartsWith(lcl, "developed ") THEN OldDeveloped(content, entry)
    ELSE IF StartsWith(lcl, "roll ")
    THEN [entry EXCEPT !.roll_num = Strip(From(content, 5))]
    ELSE IF StartsWith(lcl, "at ") \/ StartsWith(lcl, "around ") \/ StartsWith(lcl, "in ")
    THEN [entry EXCEPT !.shot_location = Strip(content)]
    ELSE IF StartsWith(lcl, "subject")
    THEN [entry EXCEPT !.subject = AfterColonOr(content, 7)]
    ELSE IF StartsWith(lcl, "filter")
    THEN [entry EXCEPT !.filter = AfterColonOr(content, 6)]
    ELSE IF StartsWith(lcl, "notes")
    THEN [entry EXCEPT !.notes = NoteJoin(entry.notes, AfterColonOr(content, 5))]
    ELSE [entry EXCEPT !.notes = NoteJoin(entry.notes, content)]

\* the entry after _parse_old_sub_entry(line, entry, line_num)
_parse_old_sub_entry(line, entry) ==
    With(SubContent(line), LAMBDA content :
      With(Lower(content), LAMBDA lcl :
        IF StartsWith(lcl, "iso ") THEN [entry EXCEPT !.iso = Strip(From(content, 4))]
        ELSE With(ReSearch(OldRe.exposures, content, TRUE), LAMBDA exp :
               IF exp.ok THEN [entry EXCEPT !.exposures = Group(exp, content, "1")]
               ELSE OldKeyword(content, lcl, entry))))


(***************************************************************************)
(* _parse_new_sub_entry                                                    *)
(***************************************************************************)
\* a note_append that drops the key
note_append_NoKey(entry, prefix, v) ==
    IF ~Truthy(v) THEN entry
    ELSE [entry EXCEPT !.notes = NoteJoin(entry.notes, v)]

\* note_append(prefix, v)
note_append(entry, prefix, v) ==
    IF ~Truthy(v) THEN entry
    ELSE [entry EXCEPT !.notes = NoteJoin(entry.notes, prefix \o ": " \o v)]

\* a date key ("loaded date", "ready for development date", "developed date")
NewDate(entry, field, prefix, val) ==
    IF ~Truthy(val) THEN entry
    ELSE With(ReSearch(date_pattern, val, TRUE), LAMBDA m :
           IF m.ok THEN [entry EXCEPT ![field] = normalize_date(Group(m, val, "1"))]
           ELSE note_append(entry, prefix, val))

\* the "exposures" key; the pattern is r"\d+"
NewExposures(entry, val) ==
    With(ReSearch(<<Rep("\\d", 1, Unbounded)>>, val, FALSE), LAMBDA digits :
      [entry EXCEPT !.exposures = IF digits.ok THEN Group0(digits, val) ELSE val])

\* the "expiration" key
NewExpiration(entry, val) ==
    IF ~Truthy(val) \/ Contains(Lower(val), "unknown")
    THEN note_append(entry, "Expiration", IF Truthy(val) THEN val ELSE "Unknown")
    ELSE [entry EXCEPT !.expiration = normalize_date(val)]

\* the "camera" key; the pattern is r"^(?:around|at|in)\b", re.IGNORECASE
NewCamera(entry, val) ==
    IF ReMatch(<<Bol, LocCue, WB>>, val, TRUE).ok
    THEN [entry EXCEPT !.notes = NoteJoin(entry.notes, "Camera (raw -> location): " \o val),
                       !.shot_location = val,
                       !.camera = ""]
    ELSE With(_canonical_camera(val), LAMBDA canon :
           IF canon = None
           THEN [entry EXCEPT !.notes = NoteJoin(entry.notes, "Camera (raw): " \o val),
                              !.camera = "Unknown"]
           ELSE [entry EXCEPT !.camera = canon])

\* the "lens" key
NewLens(entry, val) ==
    With(_find_known_camera_in_text(val), LAMBDA cam_found :
      IF cam_found # None
      THEN [entry EXCEPT
              !.camera = cam_found,
              !.notes = IF ~_looks_like_lens(val)
                        THEN NoteJoin(entry.notes, "Lens (raw contained camera): " \o val)
                        ELSE entry.notes,
              !.lens = ""]
      ELSE [entry EXCEPT !.lens = val])

\* the "key: value" lines: key is raw_key.strip().lower(), val is raw_val.strip()
NewKeyValue(raw_key, key, val, entry) ==
    CASE key = "iso" -> [entry EXCEPT !.iso = val]
      [] key = "exposures" -> NewExposures(entry, val)
      [] key = "expiration" -> NewExpiration(entry, val)
      [] key = "loaded date" -> NewDate(entry, "loaded_date", "Loaded Date", val)
      [] key = "camera" -> NewCamera(entry, val)
      [] key = "lens" -> NewLens(entry, val)
      [] key = "filter" -> [entry EXCEPT !.filter = val]
      [] key = "notes" -> [entry EXCEPT !.notes = NoteJoin(entry.notes, val)]
      [] key = "subject" -> [entry EXCEPT !.subject = val]
      [] key = "shot location" -> [entry EXCEPT !.shot_location = val]
      [] key = "ready for development date" ->
           NewDate(entry, "ready_date", "Ready for Development Date", val)
      [] key = "developed date" ->
           NewDate(entry, "developed_date", "Developed Date", val)
      [] key = "developed location" -> [entry EXCEPT !.developed_location = val]
      [] key \in {"rollnum", "roll num", "roll number"} ->
           [entry EXCEPT !.roll_num = val]
      [] OTHER -> note_append(entry, Strip(raw_key), val)

\* a sub-entry line without ":": a location line or a note
NewNoColon(content, lcl, entry) ==
    IF StartsWith(lcl, "at ") \/ StartsWith(lcl, "around ") \/ StartsWith(lcl, "in ")
    THEN [entry EXCEPT !.shot_location = Strip(content)]
    ELSE [entry EXCEPT !.notes = NoteJoin(entry.notes, content)]

\* the entry after _parse_new_sub_entry(line, entry, line_num)
_parse_new_sub_entry(line, entry) ==
    With(SubContent(line), LAMBDA content :
      IF ~Truthy(content) THEN entry
      ELSE IF ~Contains(content, ":")
      THEN NewNoColon(content, Strip(Lower(content)), entry)
      ELSE With(SplitHead(content, ":"), LAMBDA raw_key :
             NewKeyValue(raw_key, Lower(Strip(raw_key)),
                         Strip(SplitTail(content, ":")), entry)))

(***************************************************************************)
(* _finalize_entry                                                         *)
(***************************************************************************)
\* step 1: a location phrase in camera moves to shot_location
FinalizeLocation(e) ==
    IF Truthy(e.camera) /\ _is_location_phrase(e.camera)
    THEN [e EXCEPT !.camera = "",
                   !.notes = NoteJoin(e.notes, "Camera (raw -> location): " \o e.camera),
                   !.shot_location = IF ~Truthy(e.shot_location) THEN e.camera
                                      ELSE e.shot_location]
    ELSE e

\* step 2: a camera name in lens moves to camera
FinalizeLens(e) ==
    IF ~Truthy(e.lens) THEN e
    ELSE With(_find_known_camera_in_text(e.lens), LAMBDA cam_in_lens :
           IF cam_in_lens = None THEN e
           ELSE IF ~_looks_like_lens(e.lens)
           THEN [e EXCEPT !.camera = cam_in_lens,
                          !.notes = NoteJoin(e.notes,
                                             "Lens (raw contained camera): " \o e.lens),
                          !.lens = ""]
           ELSE [e EXCEPT !.camera = cam_in_lens])

\* step 3 for an empty camera: a camera named in notes, else "Unknown"
CameraFromNotes(e) ==
    With(IF Truthy(e.notes) THEN _find_known_camera_in_text(e.notes) ELSE None,
         LAMBDA cam_from_notes :
           IF cam_from_notes # None THEN [e EXCEPT !.camera = cam_from_notes]
           ELSE [e EXCEPT !.camera = "Unknown"])

\* a step 3 that keeps a camera text it finds
FinalizeCamera_KeepRaw(e) ==
    IF ~Truthy(e.camera) THEN CameraFromNotes(e) ELSE e

\* step 3: camera becomes a known camera or "Unknown"
FinalizeCamera(e) ==
    IF ~Truthy(e.camera) THEN CameraFromNotes(e)
    ELSE With(_canonical_camera(e.camera), LAMBDA canon :
           IF canon = None
           THEN [e EXCEPT !.notes = NoteJoin(e.notes, "Camera (raw): " \o e.camera),
                          !.camera = "Unknown"]
           ELSE [e EXCEPT !.camera = canon])

\* a _finalize_entry that resolves the camera before the location check
_finalize_entry_CameraFirst(e) == FinalizeLens(FinalizeLocation(FinalizeCamera(e)))

\* the entry after _finalize_entry(e)
_finalize_entry(e) == FinalizeCamera(FinalizeLens(FinalizeLocation(e)))

(***************************************************************************)
(* FilmEntry.to_markdown                                                   *)
(***************************************************************************)
\* an or_default without the default
or_default_AsIs(value) == value

\* or_default(value, default="None")
or_default(value) == IF Truthy(Strip(value)) THEN value ELSE "None"

\* "sep".join(parts)
RECURSIVE Join(_, _)
Join(parts, sep) ==
    IF parts = <<>> THEN ""
    ELSE IF Len(parts) = 1 THEN parts[1]
    ELSE parts[1] \o sep \o Join(Tail(parts), sep)

\* [s for s in parts if s]
RECURSIVE NonEmpty(_)
NonEmpty(parts) ==
    IF parts = <<>> THEN <<>>
    ELSE (IF Truthy(Head(parts)) THEN <<Head(parts)>> ELSE <<>>) \o NonEmpty(Tail(parts))

\* a Developed Location line without the default
developed_location_AsIs(e) == e.developed_location

\* the "Developed Location default override"
developed_location_val(e) ==
    IF Truthy(Strip(e.developed_location)) THEN Strip(e.developed_location)
    ELSE "Citizens PDX"

filmstock_display(e) ==
    LET joined == Strip(Join(NonEmpty(<<Strip(e.quantity), Strip(e.filmstock)>>), " "))
    IN IF ~Truthy(joined) THEN "None" ELSE joined

\* the lines of the block, before "\n".join(lines)
MarkdownLines(e) ==
    <<"- Filmstock: " \o filmstock_display(e),
      "    - ISO: " \o or_default(e.iso),
      "    - Exposures: " \o or_default(e.exposures),
      "    - Expiration: " \o or_default(e.expiration),
      "    - Loaded Date: " \o or_default(e.loaded_date),
      "    - Camera: " \o or_default(e.camera),
      "    - Lens: " \o or_default(e.lens),
      "    - Filter: " \o or_default(e.filter),
      "    - Notes: " \o or_default(e.notes),
      "    - Subject: " \o or_default(e.subject),
      "    - Shot Location: " \o or_default(e.shot_location),
      "    - Ready for Development Date: " \o or_default(e.ready_date),
      "    - Developed Date: " \o or_default(e.developed_date),
      "    - Developed Location: " \o developed_location_val(e),
      "    - RollNum: " \o or_default(e.roll_num)>>

to_markdown(e) == Join(MarkdownLines(e), "\n")

(***************************************************************************)
(* count_input_entries                                                     *)
(***************************************************************************)
\* content.splitlines(), for "\n" line ends: ends holds, for every line from
\* position i on, the position just after its last character
RECURSIVE SplitLinesFrom(_, _, _)
SplitLinesFrom(s, i, ends) ==
    IF ends = {} THEN <<>>
    ELSE With(CHOOSE e \in ends : \A x \in ends : e <= x, LAMBDA e :
           <<SubSeq(s, i, e - 1)>> \o SplitLinesFrom(s, e + 1, ends \ {e}))

splitlines(s) ==
    SplitLinesFrom(s, 1,
                   {k \in 1..Len(s) : Ch(s, k) = "\n"}
                   \cup (IF Len(s) > 0 /\ Ch(s, Len(s)) # "\n" THEN {Len(s) + 1} ELSE {}))

\* the patterns of count_input_entries and parse_entries
HeaderRe ==
    LET \* ^\s{0,3}-\s+
        lead == <<Bol, Rep("\\s", 0, 3), Lit("-"), Rep("\\s", 1, Unbounded)>>
        \* ^-\s+
        nested == <<Bol, Lit("-"), Rep("\\s", 1, Unbounded)>>
        \* Filmstock:\s*(.+?)\s*$
        colon_value ==
            <<Lit("Filmstock:"), Rep("\\s", 0, Unbounded),
              Grp("1", <<Lazy(".", 1, Unbounded)>>), Rep("\\s", 0, Unbounded), Eol>>
        \* Filmstock\s+(.+?):\s*$
        trail_value ==
            <<Lit("Filmstock"), Rep("\\s", 1, Unbounded),
              Grp("1", <<Lazy(".", 1, Unbounded)>>), Lit(":"), Rep("\\s", 0, Unbounded),
              Eol>>
        \* (?P<qty>\d+x)\s+(?P<name>.+)$
        qty_name ==
            <<Grp("qty", <<Rep("\\d", 1, Unbounded), Lit("x")>>), Rep("\\s", 1, Unbounded),
              Grp("name", <<Rep(".", 1, Unbounded)>>), Eol>>
    IN [\* r"^\s{0,3}-\s+Filmstock(?::|\s+.+:\s*$)"
        count_new |->
          lead \o <<Lit("Filmstock"),
                    Alt(<<<<Lit(":")>>,
                          <<Rep("\\s", 1, Unbounded), Rep(".", 1, Unbounded), Lit(":"),
                            Rep("\\s", 0, Unbounded), Eol>>>>)>>,
        \* r"^\s{0,3}-\s+\d+x\s+", re.IGNORECASE
        old |-> lead \o <<Rep("\\d", 1, Unbounded), Lit("x"), Rep("\\s", 1, Unbounded)>>,
        \* r"^\s{0,3}-\s+Filmstock:\s*"
        new_colon |-> lead \o <<Lit("Filmstock:"), Rep("\\s", 0, Unbounded)>>,
        \* r"^\s{0,3}-\s+Filmstock\s+.+:\s*$"
        new_trail |->
          lead \o <<Lit("Filmstock"), Rep("\\s", 1, Unbounded), Rep(".", 1, Unbounded),
                    Lit(":"), Rep("\\s", 0, Unbounded), Eol>>,
        \* r"^\s{0,3}-\s+Filmstock:\s*(.+?)\s*$"
        new_value |-> lead \o colon_value,
        \* r"^\s{0,3}-\s+Filmstock\s+(.+?):\s*$"
        new_trail_value |-> lead \o trail_value,
        \* r"^(?P<qty>\d+x)\s+(?P<name>.+)$", re.IGNORECASE
        quantity |-> <<Bol>> \o qty_name,
        \* r"^\s{0,3}-\s+(?P<qty>\d+x)\s+(?P<name>.+)$", re.IGNORECASE
        old_value |-> lead \o qty_name,
        \* r"^-\s+Filmstock\b", re.IGNORECASE
        nested_new |-> nested \o <<Lit("Filmstock"), WB>>,
        \* r"^-\s+\d+x\b", re.IGNORECASE
        nested_old |-> nested \o <<Rep("\\d", 1, Unbounded), Lit("x"), WB>>,
        \* r"^-\s+Filmstock:\s*(.+?)\s*$"
        nested_new_value |-> nested \o colon_value,
        \* r"^-\s+Filmstock\s+(.+?):\s*$"
        nested_new_trail_value |-> nested \o trail_value,
        \* r"^-\s+(?P<qty>\d+x)\s+(?P<name>.+)$", re.IGNORECASE
        nested_old_value |-> nested \o qty_name]

\* "if new_pat.match(line) or old_pat.match(line)": the line is counted
IsCountedHeader(line) ==
    ReMatch(HeaderRe.count_new, line, FALSE).ok \/ ReMatch(HeaderRe.old, line, TRUE).ok

RECURSIVE CountFrom(_, _)
CountFrom(lines, i) ==
    IF i > Len(lines) THEN 0
    ELSE (IF IsCountedHeader(lines[i]) THEN 1 ELSE 0) + CountFrom(lines, i + 1)

count_input_entries(content) == CountFrom(splitlines(content), 1)

(***************************************************************************)
(* parse_entries: one iteration of the loop over the lines                 *)
(***************************************************************************)
\* the filmstock value of a new-format header matched by colon or trail
HeaderValue(line, colon, trail) ==
    With(ReMatch(colon, line, FALSE), LAMBDA m :
      IF m.ok THEN RStripSet(Strip(Group(m, line, "1")), {":"})
      ELSE With(ReMatch(trail, line, FALSE), LAMBDA m2 :
             IF m2.ok THEN Strip(Group(m2, line, "1")) ELSE ""))

\* a new-format header that keeps the quantity in the stock name
NewFormatEntry_NoSplit(val) == [FilmEntry EXCEPT !.filmstock = val]

\* FilmEntry() with the optional quantity split off val
NewFormatEntry(val) ==
    With(ReMatch(HeaderRe.quantity, val, TRUE), LAMBDA qm :
      IF qm.ok
      THEN [FilmEntry EXCEPT !.quantity = Strip(Group(qm, val, "qty")),
                             !.filmstock = Strip(Group(qm, val, "name"))]
      ELSE [FilmEntry EXCEPT !.filmstock = val])

\* FilmEntry() with quantity and filmstock of an old-format header
OldFormatEntry(line, pattern) ==
    With(ReMatch(pattern, line, TRUE), LAMBDA m :
      IF m.ok
      THEN [FilmEntry EXCEPT !.quantity = Strip(Group(m, line, "qty")),
                             !.filmstock = Strip(Group(m, line, "name"))]
      ELSE FilmEntry)

\* a flush_current that drops an entry equal to one already in the list
flush_current_Dedupe(es, cur) ==
    IF cur # <<>>
       /\ (Truthy(cur[1].filmstock) \/ Truthy(cur[1].quantity) \/ Truthy(cur[1].notes))
       /\ \A i \in 1..Len(es) : es[i] # cur[1]
    THEN Append(es, cur[1])
    ELSE es

\* entries after flush_current(); current is <<>> for None, <<e>> for an entry
flush_current(es, cur) ==
    IF cur # <<>>
       /\ (Truthy(cur[1].filmstock) \/ Truthy(cur[1].quantity) \/ Truthy(cur[1].notes))
    THEN Append(es, cur[1])
    ELSE es

\* "if not line.strip(): continue"
IsBlank(line) == ~Truthy(Strip(line))

\* a "new format" main entry line
IsNewHeader(line) ==
    \/ ReMatch(HeaderRe.new_colon, line, FALSE).ok
    \/ ReMatch(HeaderRe.new_trail, line, FALSE).ok

\* an "old format" main entry line
IsOldHeader(line) == ReMatch(HeaderRe.old, line, TRUE).ok

\* a line in sub-entry position that is itself a header (mis-nested)
IsNestedHeader(line) ==
    \/ ReMatch(HeaderRe.nested_new, Strip(line), TRUE).ok
    \/ ReMatch(HeaderRe.nested_old, Strip(line), TRUE).ok

\* flush_current(); current = e; in_subentries = True;
\* current_is_new_format = isnew.  started records the line numbers of the
\* headers that opened an entry.
StartEntry(st, e, isnew, n) ==
    [st EXCEPT !.entries = flush_current(st.entries, st.current),
               !.current = <<e>>,
               !.in_subentries = TRUE,
               !.current_is_new_format = isnew,
               !.started = Append(st.started, n)]

\* a line starting with "    - " while an entry is open: a header found in
\* sub-entry position opens a new entry, any other line goes to the classifier
\* of the open entry's dialect
SubEntryLine(st, line, n) ==
    IF IsNestedHeader(line)
    THEN (IF ReMatch(HeaderRe.nested_new, Strip(line), TRUE).ok
          THEN StartEntry(st, NewFormatEntry(HeaderValue(Strip(line),
                                                         HeaderRe.nested_new_value,
                                                         HeaderRe.nested_new_trail_value)),
                          TRUE, n)
          ELSE StartEntry(st, OldFormatEntry(Strip(line), HeaderRe.nested_old_value),
                          FALSE, n))
    ELSE IF st.current_is_new_format
    THEN [st EXCEPT !.current = <<_parse_new_sub_entry(line, st.current[1])>>]
    ELSE [st EXCEPT !.current = <<_parse_old_sub_entry(line, st.current[1])>>]

\* any other content within a block becomes part of notes
OtherContent(st, extra) ==
    [st EXCEPT !.current =
       <<[st.current[1] EXCEPT !.notes =
            IF Truthy(st.current[1].notes) THEN st.current[1].notes \o "; " \o extra
            ELSE extra]>>]

\* The state of parse_entries after the loop body has run on line number n.
\* st = [entries, current, in_subentries, current_is_new_format, warned, started]
\* warned records the line numbers of the "Unrecognized top-level line" warnings.
ParseStep(st, line, n) ==
    IF IsBlank(line) THEN st
    ELSE IF IsNewHeader(line)
    THEN StartEntry(st, NewFormatEntry(HeaderValue(line, HeaderRe.new_value,
                                                   HeaderRe.new_trail_value)), TRUE, n)
    ELSE IF IsOldHeader(line)
    THEN StartEntry(st, OldFormatEntry(line, HeaderRe.old_value), FALSE, n)
    ELSE IF StartsWith(line, "    - ") /\ st.current # <<>> /\ st.in_subentries
    THEN SubEntryLine(st, line, n)
    ELSE IF st.current # <<>> /\ st.in_subentries
    THEN OtherContent(st, Strip(line))
    ELSE [st EXCEPT !.warned = Append(st.warned, n)]

(***************************************************************************)
(* Input documents                                                         *)
(***************************************************************************)
\* most lines of a document of Spec
MaxLines == 3
\* most sub-entry lines of the one-entry documents of SpecEntry
MaxSubLines == 2
\* most entries handed to the renderer in SpecRender
MaxBlocks == 2

\* lines of the documents of Spec: headers of both dialects, at top level and
\* nested by mistake, with and without a stock name; sub-entry lines; a line
\* that is neither; a blank line
StructLines ==
    {"- Filmstock: Kodak Gold", "- 2x Fuji Superia", "    - Filmstock: Ilford HP5",
     "    - 1x Portra", "- Filmstock:", "    - ISO: 400", "stray text", ""}

\* an old-dialect header and old-dialect sub-entry lines
OldLines ==
    [header |-> "- 1x Kodak Color Plus",
     sub |->
       {"    - ISO 200",
        "    - expiration unknown, likely expired",
        "    - expires 09/2025",
        "    - loaded in Nikon N80 with 50mm f1.8",
        "    - loaded in around town",
        "    - loaded yesterday",
        "    - shot on Pentax K1000",
        "    - shot in black Minolta SR-T101 with 28mm f2.5 around SE Portland flowers",
        "    - shot by a friend",
        "    - developed sometime",
        "    - my Halina jammed"}]

\* a new-dialect header and new-dialect sub-entry lines
NewLines ==
    [header |-> "- Filmstock: 1x Kodak Professional ProImage",
     sub |->
       {"    - Expiration: expiration unknown, likely 2026",
        "    - Expiration: 07/2027",
        "    - Loaded Date: last week",
        "    - Camera: Minolta SR-T101 silver",
        "    - Camera: Canon AE-1",
        "    - Camera: around town",
        "    - Lens: 58mm f1.4",
        "    - Lens: Nikon N80 50mm f1.8",
        "    - Lens: Nikon N80",
        "    - Push: +1"}]

\* headers of both dialects with and without a quantity, and lines in
\* sub-entry position: headers nested by mistake, a line that only starts like
\* a header, and fields of both dialects
HeaderLines ==
    [top |->
       {"- Filmstock: 2x Kodak Gold", "- 2x Kodak Gold", "- Filmstock 3X Ilford HP5:",
        "- Filmstock: Portra 400", "- 10x  Fuji Superia"},
     nested |->
       {"    - Filmstock: 1x Ilford HP5", "    - 1x Portra", "    - Filmstock 2x Cinestill:",
        "    - Filmstock is expired", "    - ISO: 400", "    - ISO 400"}]

\* for each dialect a header, lines that fill fields and notes before the line
\* under study (context), and sub-entry lines: cameras, dates and expirations
\* in the formats of normalize_date and in free text, and for the new dialect
\* the plain keys and a key that is not known
FieldLines ==
    {[header |-> "- 1x Kodak Color Plus",
      context |-> {"    - first roll of the trip", "    - loaded 3/9/24 in Nikon N80"},
      sub |->
        {"    - shot on Minolta",
         "    - shot on black Minolta SR-T101",
         "    - shot on Minolta SRT101",
         "    - shot on Minolta srt-101 Black",
         "    - shot on Minolta X-700",
         "    - expires 09/2025",
         "    - expiration 4/5/24",
         "    - expiration: 1/2/31",
         "    - expires 1/2/123",
         "    - expires soon",
         "    - expiration: sometime next year"}],
     [header |-> "- Filmstock: Kodak Gold",
      context |-> {"    - Notes: first roll", "    - Camera: Nikon N80"},
      sub |->
        {"    - Camera: Minolta",
         "    - Camera: black Minolta SR-T101",
         "    - Camera: Minolta SR T101",
         "    - Camera: minolta sr-t101",
         "    - Expiration: 04/05/24",
         "    - Expiration: 4-5-2024",
         "    - Expiration: 2024-9-7",
         "    - Expiration: 09/2025",
         "    - Expiration: Expires 9/30",
         "    - Expiration: 1/2/123",
         "    - Expiration: May 1, 2023",
         "    - Expiration: soon",
         "    - Expiration: unknown",
         "    - Loaded Date: 4/5/24",
         "    - Loaded Date: last week",
         "    - Loaded Date: unknown",
         "    - Ready for Development Date: soon",
         "    - Developed Date: unknown, ask the lab",
         "    - ISO: 400",
         "    - ISO:",
         "    - Filter:  yellow ",
         "    - Subject: street: night",
         "    - Shot Location: SE Portland",
         "    - Developed Location: Blue Moon Camera",
         "    - RollNum: 12",
         "    - Roll Num: 12",
         "    - roll number: 12",
         "    - Push: +1"}]}

\* sequences over set of length at most n
SeqsUpTo(set, n) == UNION {[1..k -> set] : k \in 0..n}

\* the text of a file with these lines
FileText(lines) == IF lines = <<>> THEN "" ELSE Join(lines, "\n") \o "\n"

StructDocs == {FileText(ls) : ls \in SeqsUpTo(StructLines, MaxLines)}

\* one entry of either dialect with up to MaxSubLines sub-entry lines, and an
\* old-dialect entry followed by a new-dialect entry, one line each
EntryDocs ==
    UNION {{FileText(<<d.header>> \o ls) : ls \in SeqsUpTo(d.sub, MaxSubLines)} :
             d \in {OldLines, NewLines}}
    \cup {FileText(<<OldLines.header, l1, NewLines.header, l2>>) :
            l1 \in OldLines.sub, l2 \in NewLines.sub}

\* FilmEntry objects with empty, blank, plain and padded field values
RenderEntries ==
    {[f \in DOMAIN FilmEntry |-> v] : v \in {"", " ", "Portra 400", " 35mm "}}
    \cup {[FilmEntry EXCEPT !.filmstock = "Kodak Gold", !.quantity = q, !.iso = v,
                            !.notes = "sunny; 16 rule", !.developed_location = d] :
            q \in {"", "2x"}, v \in {"", "200"},
            d \in {"Citizens PDX", " Blue Moon Camera "}}

(***************************************************************************)
(* convert_file                                                            *)
(***************************************************************************)
VARIABLES
    input,          \* the text of the input file
    pc,             \* where convert_file is
    content,        \* content, as read
    expected_count, \* expected_count
    ps,             \* the locals of parse_entries (see ParseStep), then entries
    ln,             \* ln of parse_entries: the number of the next line
    fin,            \* index of the next entry to finalize
    render,         \* render
    output,         \* the output file: NoFile, or its text
    writes,         \* number of calls of output_path.write_text
    result,         \* the value returned ("True", "False"): "none" while running
    files,          \* exifizer: the files os.walk has still to yield
    assigned,       \* exifizer: roll_num and photo_number assigned to each file
    processed_files, \* exifizer: processed_files
    exif_pc,        \* exifizer: where parse_markdown or apply_exif_data is
    markdown_content, \* exifizer: markdown_content of parse_markdown
    line_num,       \* exifizer: line_num of parse_markdown
    current_roll,   \* exifizer: current_roll, a dict (function from keys)
    film_rolls,     \* exifizer: film_rolls
    tasks,          \* exifizer: the tasks submitted to the executor
    exif_txt,       \* exifizer: the file exif.txt of the image directory
    max_workers     \* exifizer: the threads of the pool, multiprocessing.cpu_count()

\* the state of apply_exif_data
exif_vars ==
    <<files, assigned, processed_files, exif_pc, markdown_content, line_num,
      current_roll, film_rolls, tasks, exif_txt,
      max_workers>>

\* the state of convert_file
convert_vars ==
    <<input, pc, content, expected_count, ps, ln, fin, render, output, writes, result>>

vars == <<input, pc, content, expected_count, ps, ln, fin, render, output, writes,
          result, files, assigned, processed_files, exif_pc, markdown_content,
          line_num, current_roll, film_rolls, tasks, exif_txt, max_workers>>

NoFile == "<no file>"

InitWith(docs) ==
    /\ input \in docs
    /\ pc = "read"
    /\ content = ""
    /\ expected_count = 0
    /\ ps = [entries |-> <<>>, current |-> <<>>, in_subentries |-> FALSE,
             current_is_new_format |-> FALSE, warned |-> <<>>, started |-> <<>>]
    /\ ln = 1
    /\ fin = 1
    /\ render = ""
    /\ output = NoFile
    /\ writes = 0
    /\ result = "none"
    /\ files = <<>>
    /\ assigned = <<>>
    /\ processed_files = 0
    /\ exif_pc = "idle"
    /\ markdown_content = ""
    /\ line_num = 1
    /\ current_roll = <<>>
    /\ film_rolls = <<>>
    /\ tasks = <<>>
    /\ exif_txt = NoFile
    /\ max_workers = 1

\* return False (from the count check or from "except Exception")
ReturnFalse ==
    /\ pc' = "done"
    /\ result' = "False"

\* content = input_path.read_text(encoding="utf-8")
Read ==
    /\ pc = "read"
    /\ content' = input
    /\ pc' = "count"
    /\ UNCHANGED <<input, expected_count, ps, ln, fin, render, output, writes, result>>
    /\ UNCHANGED exif_vars

\* read_text raises
ReadFail ==
    /\ pc = "read"
    /\ ReturnFalse
    /\ UNCHANGED <<input, content, expected_count, ps, ln, fin, render, output, writes>>
    /\ UNCHANGED exif_vars

\* expected_count = self.count_input_entries(content)
Count ==
    /\ pc = "count"
    /\ expected_count' = count_input_entries(content)
    /\ pc' = "parse"
    /\ UNCHANGED <<input, content, ps, ln, fin, render, output, writes, result>>
    /\ UNCHANGED exif_vars

\* parse_entries: the loop body on line ln
ParseLine ==
    /\ pc = "parse"
    /\ ln <= Len(splitlines(content))
    /\ ps' = ParseStep(ps, splitlines(content)[ln], ln)
    /\ ln' = ln + 1
    /\ UNCHANGED <<input, pc, content, expected_count, fin, render, output, writes,
                   result>>
    /\ UNCHANGED exif_vars

\* parse_entries: after the loop, flush the last open entry and return entries
ParseEnd ==
    /\ pc = "parse"
    /\ ln > Len(splitlines(content))
    /\ ps' = [ps EXCEPT !.entries = flush_current(ps.entries, ps.current),
                        !.current = <<>>]
    /\ pc' = "finalize"
    /\ UNCHANGED <<input, content, expected_count, ln, fin, render, output, writes,
                   result>>
    /\ UNCHANGED exif_vars

\* for e in entries: self._finalize_entry(e)
Finalize ==
    /\ pc = "finalize"
    /\ fin <= Len(ps.entries)
    /\ ps' = [ps EXCEPT !.entries[fin] = _finalize_entry(ps.entries[fin])]
    /\ fin' = fin + 1
    /\ UNCHANGED <<input, pc, content, expected_count, ln, render, output, writes,
                   result>>
    /\ UNCHANGED exif_vars

\* a convert_file that renders whatever the counts are
Check_NoGate ==
    /\ pc = "finalize"
    /\ fin > Len(ps.entries)
    /\ pc' = "render"
    /\ UNCHANGED <<input, content, expected_count, ps, ln, fin, render, output, writes,
                   result>>
    /\ UNCHANGED exif_vars

\* if expected_count != len(entries): return False
Check ==
    /\ pc = "finalize"
    /\ fin > Len(ps.entries)
    /\ IF expected_count # Len(ps.entries)
       THEN ReturnFalse
       ELSE pc' = "render" /\ UNCHANGED result
    /\ UNCHANGED <<input, content, expected_count, ps, ln, fin, render, output, writes>>
    /\ UNCHANGED exif_vars

RECURSIVE Blocks(_, _)
\* blocks: an empty string before every block but the first
Blocks(es, i) ==
    IF i > Len(es) THEN <<>>
    ELSE (IF i > 1 THEN <<"">> ELSE <<>>) \o <<to_markdown(es[i])>> \o Blocks(es, i + 1)

\* render = "\n".join(blocks) + ("\n" if blocks else "")
RenderText(es) ==
    Join(Blocks(es, 1), "\n") \o (IF Blocks(es, 1) # <<>> THEN "\n" ELSE "")

Render ==
    /\ pc = "render"
    /\ render' = RenderText(ps.entries)
    /\ pc' = "mkdir"
    /\ UNCHANGED <<input, content, expected_count, ps, ln, fin, output, writes, result>>
    /\ UNCHANGED exif_vars

\* output_path.parent.mkdir(parents=True, exist_ok=True)
Mkdir ==
    /\ pc = "mkdir"
    /\ pc' = "write"
    /\ UNCHANGED <<input, content, expected_count, ps, ln, fin, render, output, writes,
                   result>>
    /\ UNCHANGED exif_vars

\* mkdir raises
MkdirFail ==
    /\ pc = "mkdir"
    /\ ReturnFalse
    /\ UNCHANGED <<input, content, expected_count, ps, ln, fin, render, output, writes>>
    /\ UNCHANGED exif_vars

\* a convert_file that calls write_text a second time
Write_Twice ==
    /\ pc = "write"
    /\ output' = render
    /\ writes' = writes + 1
    /\ pc' = IF writes = 0 THEN "write" ELSE "done"
    /\ result' = IF writes = 0 THEN result ELSE "True"
    /\ UNCHANGED <<input, content, expected_count, ps, ln, fin, render>>
    /\ UNCHANGED exif_vars

\* output_path.write_text(render, "utf-8"); return True
Write ==
    /\ pc = "write"
    /\ output' = render
    /\ writes' = writes + 1
    /\ pc' = "done"
    /\ result' = "True"
    /\ UNCHANGED <<input, content, expected_count, ps, ln, fin, render>>
    /\ UNCHANGED exif_vars

\* write_text raises: the file could not be opened, or was opened (and so
\* emptied) and not written in full
WriteFail ==
    /\ pc = "write"
    /\ output' \in {output, "", SubSeq(render, 1, Len(render) \div 2)}
    /\ writes' = writes + 1
    /\ ReturnFalse
    /\ UNCHANGED <<input, content, expected_count, ps, ln, fin, render>>
    /\ UNCHANGED exif_vars

Next ==
    \/ Read \/ ReadFail \/ Count \/ ParseLine \/ ParseEnd \/ Finalize \/ Check
    \/ Render \/ Mkdir \/ MkdirFail \/ Write \/ WriteFail

\* convert_file on documents of headers and lines of both dialects
Init == InitWith(StructDocs)
Spec == Init /\ [][Next]_vars

\* convert_file on documents of one or two entries and their sub-entry lines
InitEntry == InitWith(EntryDocs)
SpecEntry == InitEntry /\ [][Next]_vars

\* to_markdown and the rendering steps of convert_file on lists of FilmEntry
\* objects with arbitrary field values
InitRender ==
    /\ input = ""
    /\ pc = "render"
    /\ content = ""
    /\ \E es \in SeqsUpTo(RenderEntries, MaxBlocks) :
         /\ ps = [entries |-> es, current |-> <<>>, in_subentries |-> FALSE,
                  current_is_new_format |-> FALSE, warned |-> <<>>, started |-> <<>>]
         /\ expected_count = Len(es)
         /\ fin = Len(es) + 1
    /\ ln = 1
    /\ render = ""
    /\ output = NoFile
    /\ writes = 0
    /\ result = "none"
    /\ files = <<>>
    /\ assigned = <<>>
    /\ processed_files = 0
    /\ exif_pc = "idle"
    /\ markdown_content = ""
    /\ line_num = 1
    /\ current_roll = <<>>
    /\ film_rolls = <<>>
    /\ tasks = <<>>
    /\ exif_txt = NoFile
    /\ max_workers = 1

NextRender == Render \/ Mkdir \/ MkdirFail \/ Write \/ WriteFail
SpecRender == InitRender /\ [][NextRender]_vars

\* convert_file on documents of one entry of either dialect: the header, fewer
\* than MaxSubLines context lines, and one sub-entry line
InitLine ==
    InitWith(UNION {{FileText(<<d.header>> \o ctx \o <<l>>) :
                       ctx \in SeqsUpTo(d.context, MaxSubLines - 1), l \in d.sub} :
                    d \in FieldLines})
SpecLine == InitLine /\ [][Next]_vars

\* convert_file on documents of one header and up to MaxSubLines lines in
\* sub-entry position, and the rendering steps on FilmEntry objects with
\* arbitrary field values
InitHeader ==
    \/ InitWith({FileText(<<h>> \o ls) :
                   h \in HeaderLines.top, ls \in SeqsUpTo(HeaderLines.nested, MaxSubLines)})
    \/ InitRender
SpecHeader == InitHeader /\ [][Next]_vars

\* for each dialect a header, lines that fill shot_location and notes before
\* the line under study (context), and the lines under study: camera texts that
\* are a place, a known camera, an unknown camera, "Unknown" or nothing, notes
\* with and without ";" at their ends, and a line without the sub-entry prefix
NoteLines ==
    {[header |-> "- 2x Ilford HP5",
      context |-> {"    - at the park", "    - ; light leak", "    - my Halina jammed"},
      sub |->
        {"    - shot on around town",
         "    - shot on At the coast",
         "    - shot on in my Minolta",
         "    - loaded 3/9/24 in in the mountains",
         "    - shot on atlas camera",
         "    - shot on Pentax K1000",
         "    - shot on Nikon N80",
         "    - shot on Unknown",
         "    - first roll of the trip",
         "    - call the lab;",
         "    - notes",
         "  see the back of the sleeve"}],
     [header |-> "- Filmstock: Portra 400",
      context |-> {"    - Shot Location: SE Portland", "    - Notes: ; light leak",
                   "    - Notes: borrowed Halina"},
      sub |->
        {"    - Camera: around town",
         "    - Camera: In the studio",
         "    - Camera: at my Minolta shop",
         "    - Camera: inside",
         "    - Camera: Canon AE-1",
         "    - Camera: Nikon N80",
         "    - Camera: nikon n80 body",
         "    - Camera: Unknown",
         "    - Camera:",
         "    - Lens: Nikon N80",
         "    - Push: +1",
         "    - Notes: second note",
         "    - Notes:",
         "    - stray note",
         "  see the back of the sleeve"}]}

\* convert_file on documents of one entry of either dialect: the header, fewer
\* than MaxSubLines context lines of NoteLines, and one line under study
InitNote ==
    InitWith(UNION {{FileText(<<d.header>> \o ctx \o <<l>>) :
                       ctx \in SeqsUpTo(d.context, MaxSubLines - 1), l \in d.sub} :
                    d \in NoteLines})
SpecNote == InitNote /\ [][Next]_vars

\* raw camera texts: nothing, blanks, the canonical names in several cases,
\* nicknames, model numbers alone and inside longer words, the Minolta SR-T101
\* spellings with and without a finish, texts that name two cameras, and
\* texts that name none; each alone, padded, and inside a phrase
CameraTexts ==
    {p \o c \o q :
       p \in {"", " ", "my "},
       c \in {"", "Nikon N80", "nikon n80", "NIKON N80", "Minolta SR-T101 silver",
              "minolta sr-t101 black", "Minolta X-700", "Halina 35X", "n80", "N80s",
              "x700", "X-700", "Minolta SRT101", "minolta srt-101 Black",
              "Minolta SR T101", "Minolta", "black minolta", "halina", "Canon AE-1",
              "Unknown", "Minolta X-700 or Nikon N80", "Halina 35X n80",
              "minolta x700", "halina minolta", "n80 x-700", "SR-T101"},
       q \in {"", " ", " body"}}

\* canon = self._canonical_camera(raw) on a raw text of CameraTexts
InitCamera ==
    /\ input \in CameraTexts
    /\ pc = "camera"
    /\ content = ""
    /\ expected_count = 0
    /\ ps = [entries |-> <<>>, current |-> <<>>, in_subentries |-> FALSE,
             current_is_new_format |-> FALSE, warned |-> <<>>, started |-> <<>>]
    /\ ln = 1
    /\ fin = 1
    /\ render = ""
    /\ output = NoFile
    /\ writes = 0
    /\ result = "none"
    /\ files = <<>>
    /\ assigned = <<>>
    /\ processed_files = 0
    /\ exif_pc = "idle"
    /\ markdown_content = ""
    /\ line_num = 1
    /\ current_roll = <<>>
    /\ film_rolls = <<>>
    /\ tasks = <<>>
    /\ exif_txt = NoFile
    /\ max_workers = 1

\* the call returns: result holds the canonical name, or None
CanonicalCamera ==
    /\ pc = "camera"
    /\ result' = _canonical_camera(input)
    /\ pc' = "done"
    /\ UNCHANGED <<input, content, expected_count, ps, ln, fin, render, output, writes>>
    /\ UNCHANGED exif_vars

SpecCamera == InitCamera /\ [][CanonicalCamera]_vars

(***************************************************************************)
(* exifizer.py: parse_markdown                                             *)
(***************************************************************************)
\* str.zfill(4), for a string without a sign
zfill4(s) == IF Len(s) >= 4 THEN s ELSE SubSeq("0000", 1, 4 - Len(s)) \o s

\* match = re.search(pattern, text);
\* return match.group(1).strip() if match else default
safe_regex_extract(pattern, text, default) ==
    With(ReSearch(pattern, text, FALSE), LAMBDA match :
      IF match.ok THEN Strip(Group(match, text, "1")) ELSE default)

\* the patterns datetime.strptime builds for the formats of date_formats:
\* %m is 1[0-2]|0[1-9]|[1-9], %d is 3[01]|[12]\d|0[1-9]|[1-9]| [1-9],
\* %y is \d\d and %Y is \d\d\d\d
date_formats ==
    LET nz == "123456789"
        m == Grp("m", <<Alt(<<<<Lit("1"), Rep("012", 1, 1)>>, <<Lit("0"), Rep(nz, 1, 1)>>,
                              <<Rep(nz, 1, 1)>>>>)>>)
        d == Grp("d", <<Alt(<<<<Lit("3"), Rep("01", 1, 1)>>,
                              <<Rep("12", 1, 1), Rep("\\d", 1, 1)>>,
                              <<Lit("0"), Rep(nz, 1, 1)>>, <<Rep(nz, 1, 1)>>,
                              <<Lit(" "), Rep(nz, 1, 1)>>>>)>>)
        y == Grp("y", <<Rep("\\d", 2, 2)>>)
        Y == Grp("Y", <<Rep("\\d", 4, 4)>>)
    IN <<<<m, Lit("/"), d, Lit("/"), y>>,     \* "%m/%d/%y"
         <<m, Lit("/"), d, Lit("/"), Y>>,     \* "%m/%d/%Y"
         <<Y, Lit("-"), m, Lit("-"), d>>,     \* "%Y-%m-%d"
         <<d, Lit("/"), m, Lit("/"), y>>,     \* "%d/%m/%y"
         <<d, Lit("/"), m, Lit("/"), Y>>>>    \* "%d/%m/%Y"

\* datetime.strptime(s, fmt).strftime("%m/%d/%y"), None for a ValueError: the
\* pattern has to match from the start and leave nothing over, and the day
\* has to exist in the month of the year
strptime(s, fmt) ==
    With(ReMatch(fmt, s, TRUE), LAMBDA found :
      IF ~found.ok \/ found.e # Len(s) + 1 THEN None
      ELSE LET month == ToInt(Group(found, s, "m"))
               day == ToInt(Strip(Group(found, s, "d")))
               yy == ToInt(Group(found, s, "y"))
               year == IF "Y" \in DOMAIN found.g THEN ToInt(Group(found, s, "Y"))
                       ELSE IF yy <= 68 THEN 2000 + yy ELSE 1900 + yy
               leap == year % 4 = 0 /\ (year % 100 # 0 \/ year % 400 = 0)
               days == IF month = 2 THEN (IF leap THEN 29 ELSE 28)
                       ELSE IF month \in {4, 6, 9, 11} THEN 30 ELSE 31
           IN IF year < 1 \/ day > days THEN None
              ELSE Pad2(month) \o "/" \o Pad2(day) \o "/" \o Pad2(year % 100))

\* parse_date_with_fallback(date_str, field_name): the first format that
\* parses date_str.strip(), else "Unknown"
parse_date_with_fallback(date_str) ==
    IF ~Truthy(date_str) \/ Strip(date_str) \in {"", "None", "Unknown"} THEN "Unknown"
    ELSE With({k \in 1..Len(date_formats) : strptime(Strip(date_str), date_formats[k]) # None},
              LAMBDA parsed :
                IF parsed = {} THEN "Unknown"
                ELSE strptime(Strip(date_str),
                              date_formats[CHOOSE k \in parsed : \A j \in parsed : k <= j]))

\* roll[key] = value, for a dict roll: a function from its keys
SetKey(roll, key, value) ==
    [k \in DOMAIN roll \cup {key} |-> IF k = key THEN value ELSE roll[k]]

\* validate_and_set_defaults(roll)
validate_and_set_defaults(roll) ==
    LET defaults ==
          [FilmStock |-> "Unknown Film", ISO |-> "100", LoadDate |-> "Unknown",
           Camera |-> "Unknown Camera", Lens |-> "Unknown Lens", Filter |-> "None",
           Notes |-> "None", Subject |-> "None", ShotLocation |-> "Unknown Location",
           FilmProcessedDate |-> "Unknown", DevelopedBy |-> "Unknown Lab",
           RollNum |-> "0000"]
    IN [key \in DOMAIN roll \cup DOMAIN defaults |->
          IF key \in DOMAIN defaults
             /\ (key \notin DOMAIN roll \/ ~Truthy(roll[key]) \/ Strip(roll[key]) = "")
          THEN defaults[key] ELSE roll[key]]

\* count_rolls = sum(1 for line in lines if line.startswith("- Filmstock"))
count_rolls(lines) ==
    Cardinality({k \in 1..Len(lines) : StartsWith(lines[k], "- Filmstock")})

\* a field line of parse_markdown: the first key found in the line decides.
\* The patterns are r"<Key>: (.+)", r"ISO: (\d+)", r"RollNum: (\d+)" and
\* r"<Key>: ([\d/\-]+)" for the two dates.
FieldLine(line, roll) ==
    LET text(key) == safe_regex_extract(<<Lit(key \o ": "),
                                          Grp("1", <<Rep(".", 1, Unbounded)>>)>>,
                                        line, "None")
        digits(key, default) ==
          safe_regex_extract(<<Lit(key \o ": "), Grp("1", <<Rep("\\d", 1, Unbounded)>>)>>,
                             line, default)
        date(key) == safe_regex_extract(<<Lit(key \o ": "),
                                          Grp("1", <<Rep("0123456789/-", 1, Unbounded)>>)>>,
                                        line, "None")
    IN IF Contains(line, "ISO:") THEN SetKey(roll, "ISO", digits("ISO", "100"))
       ELSE IF Contains(line, "Loaded Date:")
       THEN SetKey(roll, "LoadDate", parse_date_with_fallback(date("Loaded Date")))
       ELSE IF Contains(line, "Camera:") THEN SetKey(roll, "Camera", text("Camera"))
       ELSE IF Contains(line, "Lens:") THEN SetKey(roll, "Lens", text("Lens"))
       ELSE IF Contains(line, "Filter:") THEN SetKey(roll, "Filter", text("Filter"))
       ELSE IF Contains(line, "Notes:") THEN SetKey(roll, "Notes", text("Notes"))
       ELSE IF Contains(line, "Subject:") THEN SetKey(roll, "Subject", text("Subject"))
       ELSE IF Contains(line, "Shot Location:")
       THEN SetKey(roll, "ShotLocation", text("Shot Location"))
       ELSE IF Contains(line, "Developed Date:")
       THEN SetKey(roll, "FilmProcessedDate",
                   parse_date_with_fallback(date("Developed Date")))
       ELSE IF Contains(line, "Developed Location:")
       THEN SetKey(roll, "DevelopedBy", text("Developed Location"))
       ELSE IF Contains(line, "RollNum:")
       THEN SetKey(roll, "RollNum", zfill4(digits("RollNum", "0000")))
       ELSE roll

\* film_rolls and current_roll after the loop body of parse_markdown has run
\* on line: a "- Filmstock:" line closes the roll that is open, if it holds
\* anything, and opens the next one
MarkdownStep(st, line) ==
    IF StartsWith(Strip(line), "- Filmstock:")
    THEN [film_rolls |-> IF DOMAIN st.current_roll # {}
                         THEN Append(st.film_rolls,
                                     validate_and_set_defaults(st.current_roll))
                         ELSE st.film_rolls,
          current_roll |->
            SetKey(<<>>, "FilmStock",
                   safe_regex_extract(<<Lit(": "), Grp("1", <<Rep(".", 1, Unbounded)>>)>>,
                                      line, "None"))]
    ELSE [st EXCEPT !.current_roll = FieldLine(line, st.current_roll)]

\* lines of a film manifest: headers (plain, indented, without a stock
\* name, with the colon after the name), field lines, and a blank note
ManifestLines ==
    {"- Filmstock: Kodak Gold 200", "  - Filmstock: Ilford HP5", "- Filmstock:",
     "- Filmstock 2x Portra:", "    - ISO: 400", "    - RollNum: 12",
     "    - Loaded Date: 4/5/24", "    - Notes:  "}

\* the loop body of parse_markdown on line line_num
ParseMarkdownLine ==
    /\ exif_pc = "parse"
    /\ line_num <= Len(splitlines(markdown_content))
    /\ LET st == MarkdownStep([film_rolls |-> film_rolls, current_roll |-> current_roll],
                              splitlines(markdown_content)[line_num])
       IN /\ film_rolls' = st.film_rolls
          /\ current_roll' = st.current_roll
    /\ line_num' = line_num + 1
    /\ UNCHANGED <<files, assigned, processed_files, exif_pc, markdown_content, tasks,
                   exif_txt, max_workers>>
    /\ UNCHANGED convert_vars

\* after the loop: "Handle the last roll", then return film_rolls
ParseMarkdownEnd ==
    /\ exif_pc = "parse"
    /\ line_num > Len(splitlines(markdown_content))
    /\ IF DOMAIN current_roll # {}
       THEN /\ current_roll' = validate_and_set_defaults(current_roll)
            /\ film_rolls' = Append(film_rolls, validate_and_set_defaults(current_roll))
       ELSE UNCHANGED <<current_roll, film_rolls>>
    /\ exif_pc' = "returned"
    /\ UNCHANGED <<files, assigned, processed_files, markdown_content, line_num, tasks,
                   exif_txt, max_workers>>
    /\ UNCHANGED convert_vars

\* parse_markdown on manifests of up to MaxLines lines
InitManifest ==
    /\ markdown_content \in {FileText(ls) : ls \in SeqsUpTo(ManifestLines, MaxLines)}
    /\ exif_pc = "parse"
    /\ line_num = 1
    /\ current_roll = <<>>
    /\ film_rolls = <<>>
    /\ files = <<>>
    /\ assigned = <<>>
    /\ processed_files = 0
    /\ tasks = <<>>
    /\ exif_txt = NoFile
    /\ max_workers = 1
    /\ input = ""
    /\ pc = "read"
    /\ content = ""
    /\ expected_count = 0
    /\ ps = [entries |-> <<>>, current |-> <<>>, in_subentries |-> FALSE,
             current_is_new_format |-> FALSE, warned |-> <<>>, started |-> <<>>]
    /\ ln = 1
    /\ fin = 1
    /\ render = ""
    /\ output = NoFile
    /\ writes = 0
    /\ result = "none"

SpecManifest == InitManifest /\ [][ParseMarkdownLine \/ ParseMarkdownEnd]_vars

(***************************************************************************)
(* exifizer.py: apply_exif_data                                            *)
(***************************************************************************)
\* most files in the image directory
MaxFiles == 2

\* names of files in the image directory: the two naming conventions, other
\* image names, and files that are no images
FileNames ==
    {"0000123400012.jpg", "0000123400005.jpg", "0000001200036.JPG",
     "1234_12.tif", "0012_5.tif", "1234_36.tiff",
     "scan.jpg", "exif.txt", "0000123400012.thm"}

\* the RollNum of the rolls read from the markdown file
rolls == <<"1234", "0012">>

\* r"(\d{8})(\d{4})|(\d{4})_(\d{1,2})"
roll_num_pattern ==
    <<Alt(<<<<Grp("1", <<Rep("\\d", 8, 8)>>), Grp("2", <<Rep("\\d", 4, 4)>>)>>,
            <<Grp("3", <<Rep("\\d", 4, 4)>>), Lit("_"),
              Grp("4", <<Rep("\\d", 1, 2)>>)>>>>)>>

\* file.lower().endswith((".jpg", ".jpeg", ".tiff", ".tif"))
IsImageFile(file) ==
    \E ext \in {".jpg", ".jpeg", ".tiff", ".tif"} : EndsWith(Lower(file), ext)

\* roll_num and photo_number of a file whose name roll_num_match matched:
\* naming convention #1 when group 1 took part, else naming convention #2
FileNumbers(file, roll_num_match) ==
    IF Truthy(Group(roll_num_match, file, "1"))
    THEN [file |-> file,
          roll_num |-> zfill4(LStripSet(Group(roll_num_match, file, "1"), {"0"})),
          photo_number |-> IF Truthy(Group(roll_num_match, file, "2"))
                           THEN ToInt(Group(roll_num_match, file, "2")) ELSE 1]
    ELSE [file |-> file,
          roll_num |-> zfill4(Strip(Group(roll_num_match, file, "3"))),
          photo_number |-> IF Truthy(Group(roll_num_match, file, "4"))
                           THEN ToInt(Group(roll_num_match, file, "4")) ELSE 1]

\* the rolls as parse_markdown returns them: dicts with all 12 keys, the
\* missing ones set by validate_and_set_defaults
roll_dicts ==
    <<validate_and_set_defaults([RollNum |-> rolls[1], FilmStock |-> "Kodak Gold 200",
                                 Camera |-> "Canon AE-1", Notes |-> "light leak"]),
      validate_and_set_defaults([RollNum |-> rolls[2], FilmStock |-> "Ilford HP5"])>>

\* most threads of the pool: multiprocessing.cpu_count() of the machine
MaxWorkers == 2

\* the body of "for file in files" for an image file with a roll number in
\* its name: the numbers are assigned, and when a roll has its roll number
\* (the last such roll: "for roll in reversed(rolls)") the file is processed:
\* the exiftool command and the writing of exif.txt are submitted to the
\* executor
ApplyFile ==
    /\ exif_pc = "walk"
    /\ files # <<>>
    /\ IsImageFile(Head(files))
    /\ ReSearch(roll_num_pattern, Head(files), FALSE).ok
    /\ LET n == FileNumbers(Head(files), ReSearch(roll_num_pattern, Head(files), FALSE))
           matching == {k \in 1..Len(rolls) : rolls[k] = n.roll_num}
           matching_roll == CHOOSE k \in matching : \A j \in matching : j <= k
       IN /\ assigned' = Append(assigned, n)
          /\ processed_files' =
               IF \E k \in 1..Len(rolls) : rolls[k] = n.roll_num
               THEN processed_files + 1 ELSE processed_files
          /\ tasks' =
               IF matching # {}
               THEN tasks \o <<[fn |-> "run_exiftool_cmd", roll |-> matching_roll,
                                file |-> n.file, state |-> "queued"],
                               [fn |-> "write_exif_file", roll |-> matching_roll,
                                file |-> "exif.txt", state |-> "queued"]>>
               ELSE tasks
    /\ files' = Tail(files)
    /\ UNCHANGED <<exif_pc, markdown_content, line_num, current_roll, film_rolls,
                   exif_txt, max_workers>>
    /\ UNCHANGED convert_vars

\* a file that is no image, or an image without a roll number in its name
SkipFile ==
    /\ exif_pc = "walk"
    /\ files # <<>>
    /\ \/ ~IsImageFile(Head(files))
       \/ ~ReSearch(roll_num_pattern, Head(files), FALSE).ok
    /\ files' = Tail(files)
    /\ UNCHANGED <<assigned, processed_files, exif_pc, markdown_content, line_num,
                   current_roll, film_rolls, tasks, exif_txt, max_workers>>
    /\ UNCHANGED convert_vars

\* a thread of the pool that is free takes the task submitted first among
\* those waiting in the queue of the executor
WorkerTake ==
    /\ exif_pc = "walk"
    /\ Cardinality({i \in DOMAIN tasks : tasks[i].state \in {"running", "open"}})
         < max_workers
    /\ \E i \in DOMAIN tasks :
         /\ tasks[i].state = "queued"
         /\ \A j \in 1..(i - 1) : tasks[j].state # "queued"
         /\ tasks' = [tasks EXCEPT ![i].state = "running"]
    /\ UNCHANGED <<files, assigned, processed_files, exif_pc, markdown_content,
                   line_num, current_roll, film_rolls, exif_txt, max_workers>>
    /\ UNCHANGED convert_vars

\* run_exiftool_cmd on a thread of the pool: the command runs on the image
\* file, exif.txt is not touched
run_exiftool_cmd ==
    /\ \E i \in DOMAIN tasks :
         /\ tasks[i].fn = "run_exiftool_cmd"
         /\ tasks[i].state = "running"
         /\ tasks' = [tasks EXCEPT ![i].state = "done"]
    /\ UNCHANGED <<files, assigned, processed_files, exif_pc, markdown_content,
                   line_num, current_roll, film_rolls, exif_txt, max_workers>>
    /\ UNCHANGED convert_vars

\* write_exif_file on a thread of the pool, open(filepath, "w"): the file is
\* created or cut to length 0, the position of the new handle is 0
OpenExifFile ==
    /\ \E i \in DOMAIN tasks :
         /\ tasks[i].fn = "write_exif_file"
         /\ tasks[i].state = "running"
         /\ tasks' = [tasks EXCEPT ![i].state = "open"]
    /\ exif_txt' = ""
    /\ UNCHANGED <<files, assigned, processed_files, exif_pc, markdown_content,
                   line_num, current_roll, film_rolls, max_workers>>
    /\ UNCHANGED convert_vars

\* the 11 lines write_exif_file writes for film_roll
ExifRecord(film_roll) ==
    "Camera=" \o film_roll["Camera"] \o "\n"
    \o "Lens=" \o film_roll["Lens"] \o "\n"
    \o "Filter=" \o film_roll["Filter"] \o "\n"
    \o "Film=" \o film_roll["FilmStock"] \o "\n"
    \o "ISO=" \o film_roll["ISO"] \o "\n"
    \o "MajorityShotDate=" \o film_roll["LoadDate"] \o "\n"
    \o "Subject=" \o film_roll["Subject"] \o "\n"
    \o "ShotLocation=" \o film_roll["ShotLocation"] \o "\n"
    \o "Developed=" \o film_roll["DevelopedBy"] \o "\n"
    \o "DevelopedDate=" \o film_roll["FilmProcessedDate"] \o "\n"
    \o "Notes=" \o film_roll["Notes"] \o "\n"

\* write_exif_file, the rest: the 11 lines gather in the buffer of the file
\* object and file.flush() writes them at the position of the handle, 0,
\* over what the file holds there; what the file holds beyond them stays;
\* the file is closed
WriteExifFile ==
    /\ \E i \in DOMAIN tasks :
         /\ tasks[i].fn = "write_exif_file"
         /\ tasks[i].state = "open"
         /\ tasks' = [tasks EXCEPT ![i].state = "done"]
         /\ LET record == ExifRecord(roll_dicts[tasks[i].roll])
            IN exif_txt' = record \o SubSeq(exif_txt, Len(record) + 1, Len(exif_txt))
    /\ UNCHANGED <<files, assigned, processed_files, exif_pc, markdown_content,
                   line_num, current_roll, film_rolls, max_workers>>
    /\ UNCHANGED convert_vars

\* "for future in as_completed(tasks)" and the end of the with block: every
\* file was walked and every task is done, apply_exif_data returns
AsCompleted ==
    /\ exif_pc = "walk"
    /\ files = <<>>
    /\ \A i \in DOMAIN tasks : tasks[i].state = "done"
    /\ exif_pc' = "returned"
    /\ UNCHANGED <<files, assigned, processed_files, markdown_content, line_num,
                   current_roll, film_rolls, tasks, exif_txt, max_workers>>
    /\ UNCHANGED convert_vars

\* apply_exif_data on a directory of up to MaxFiles files
InitExif ==
    /\ files \in SeqsUpTo(FileNames, MaxFiles)
    /\ assigned = <<>>
    /\ processed_files = 0
    /\ exif_pc = "walk"
    /\ markdown_content = ""
    /\ line_num = 1
    /\ current_roll = <<>>
    /\ film_rolls = <<>>
    /\ tasks = <<>>
    /\ exif_txt = NoFile
    /\ max_workers = MaxWorkers
    /\ input = ""
    /\ pc = "read"
    /\ content = ""
    /\ expected_count = 0
    /\ ps = [entries |-> <<>>, current |-> <<>>, in_subentries |-> FALSE,
             current_is_new_format |-> FALSE, warned |-> <<>>, started |-> <<>>]
    /\ ln = 1
    /\ fin = 1
    /\ render = ""
    /\ output = NoFile
    /\ writes = 0
    /\ result = "none"

NextExif == ApplyFile \/ SkipFile
SpecExif == InitExif /\ [][NextExif]_vars

\* names of files in one roll directory: scans of two rolls, and a file
\* that is no image
PoolFiles == {"1234_12.tif", "1234_36.tiff", "0012_5.tif", "scan.txt"}

\* apply_exif_data on a directory of up to MaxFiles files of different
\* names, on a machine of 1 to MaxWorkers processors
InitPool ==
    /\ files \in {fs \in SeqsUpTo(PoolFiles, MaxFiles) :
                    \A i, j \in DOMAIN fs : i # j => fs[i] # fs[j]}
    /\ assigned = <<>>
    /\ processed_files = 0
    /\ exif_pc = "walk"
    /\ markdown_content = ""
    /\ line_num = 1
    /\ current_roll = <<>>
    /\ film_rolls = <<>>
    /\ tasks = <<>>
    /\ exif_txt = NoFile
    /\ max_workers \in 1..MaxWorkers
    /\ input = ""
    /\ pc = "read"
    /\ content = ""
    /\ expected_count = 0
    /\ ps = [entries |-> <<>>, current |-> <<>>, in_subentries |-> FALSE,
             current_is_new_format |-> FALSE, warned |-> <<>>, started |-> <<>>]
    /\ ln = 1
    /\ fin = 1
    /\ render = ""
    /\ output = NoFile
    /\ writes = 0
    /\ result = "none"

SpecPool ==
    InitPool /\ [][ApplyFile \/ SkipFile \/ WorkerTake \/ run_exiftool_cmd
                   \/ OpenExifFile \/ WriteExifFile \/ AsCompleted]_vars

(***************************************************************************)
(* Properties                                                              *)
(***************************************************************************)

\* C1 (as stated): no loss.  When a sub-entry line is handed to
\* _parse_old_sub_entry or _parse_new_sub_entry and the call stores nothing in
\* a typed field (no typed field of the entry changes, and the same call on a
\* fresh FilmEntry sets none), the entry's notes afterwards contain the line's
\* content: verbatim, or as "Key: Value" for a new-dialect "key: value" line.
\* A call that adds a reworded fragment to notes (as "Expiration info: ..."
\* does) is taken to keep the content, so only a call that leaves the whole
\* entry as it was goes against the statement.
C1_NoLoss ==
    [][LET line == splitlines(content)[ln]
           text == SubContent(line)
           before == ps.current[1]
           after == ps'.current[1]
           fresh == IF ps.current_is_new_format
                    THEN _parse_new_sub_entry(line, FilmEntry)
                    ELSE _parse_old_sub_entry(line, FilmEntry)
           fragment == IF ps.current_is_new_format /\ Contains(text, ":")
                       THEN Strip(SplitHead(text, ":")) \o ": "
                              \o Strip(SplitTail(text, ":"))
                       ELSE text
       IN (/\ pc = "parse" /\ ln' = ln + 1
           /\ ps.current # <<>> /\ ps.in_subentries
           /\ StartsWith(line, "    - ")
           /\ ~IsNewHeader(line) /\ ~IsOldHeader(line) /\ ~IsNestedHeader(line)
           /\ \A f \in DOMAIN FilmEntry \ {"notes"} :
                after[f] = before[f] /\ fresh[f] = "")
          => Contains(after.notes, fragment) \/ after.notes # before.notes]_vars

\* C2 (as stated): the header scan counts every line that parse_entries turns
\* into a new entry, and a document with a header promoted from sub-entry
\* position, none of whose entries is dropped, has equal counts.
C2_ScanCountsEveryEntry ==
    LET lines == splitlines(input)
        promoted == \E k \in 1..Len(ps.started) :
                       StartsWith(lines[ps.started[k]], "    - ")
    IN /\ \A k \in 1..Len(ps.started) : IsCountedHeader(lines[ps.started[k]])
       /\ (/\ pc \in {"finalize", "render", "mkdir", "write", "done"}
           /\ promoted
           /\ Len(ps.entries) = Len(ps.started))
          => expected_count = Len(ps.entries)

\* C3 (as stated): Scenario B.  The old-dialect entry with the line "shot in
\* black Minolta SR-T101 with 28mm f2.5 around SE Portland flowers", parsed
\* and finalized, has camera "Minolta SR-T101 black", lens "28mm f2.5" and
\* shot_location "SE Portland flowers".
C3_ScenarioB ==
    (/\ input = FileText(<<"- 1x Kodak Color Plus",
                           "    - shot in black Minolta SR-T101 with 28mm f2.5 "
                             \o "around SE Portland flowers">>)
     /\ fin = 2)
    => /\ ps.entries[1].camera = "Minolta SR-T101 black"
       /\ ps.entries[1].lens = "28mm f2.5"
       /\ ps.entries[1].shot_location = "SE Portland flowers"

\* C4: validator gate.  Once parse_entries has returned, if expected_count
\* differs from the number of entries then write_text is never called, no
\* output file exists, convert_file never reaches the render, mkdir or write
\* steps, and when it ends it returns False.
C4_ValidatorGate ==
    (/\ pc \in {"finalize", "render", "mkdir", "write", "done"}
     /\ expected_count # Len(ps.entries))
    => /\ writes = 0
       /\ output = NoFile
       /\ pc \in {"finalize", "done"}
       /\ result # "True"
       /\ pc = "done" => result = "False"

\* a conversion stopped by the gate
C4_Witness ==
    /\ pc = "done"
    /\ ln > 1
    /\ expected_count # Len(ps.entries)
    /\ result = "False"
    /\ writes = 0
    /\ output = NoFile

\* C5: order preservation.  The lines that open an entry are taken in
\* increasing line order and include every top-level header; the entries that
\* carry a stock name or quantity are, one for one and in the same order, the
\* entries of the headers that carry one (so nothing is reordered, merged or
\* deduplicated); and the rendered text holds one block per entry, in the
\* order of the list.
C5_OrderPreserved ==
    LET lines == splitlines(input)
        HeaderOf(n) ==
            ParseStep([entries |-> <<>>, current |-> <<FilmEntry>>,
                       in_subentries |-> TRUE, current_is_new_format |-> FALSE,
                       warned |-> <<>>, started |-> <<>>], lines[n], n).current[1]
        IsNamed(e) == e.filmstock # "" \/ e.quantity # ""
        Title(e) == "- Filmstock: "
                      \o (IF e.quantity = "" THEN (IF e.filmstock = "" THEN "None"
                                                   ELSE e.filmstock)
                          ELSE IF e.filmstock = "" THEN e.quantity
                          ELSE e.quantity \o " " \o e.filmstock)
    IN /\ pc \in {"finalize", "render", "mkdir", "write", "done"} /\ content = input
          => /\ \A k \in 1..(Len(ps.started) - 1) : ps.started[k] < ps.started[k + 1]
             /\ \A n \in 1..Len(lines) :
                  (IsNewHeader(lines[n]) \/ IsOldHeader(lines[n]))
                  => \E k \in 1..Len(ps.started) : ps.started[k] = n
             /\ With([k \in 1..Len(ps.started) |-> HeaderOf(ps.started[k])], LAMBDA opened :
                  With(SelectSeq(opened, IsNamed), LAMBDA named :
                    With(SelectSeq(ps.entries, IsNamed), LAMBDA kept :
                      /\ Len(kept) = Len(named)
                      /\ \A i \in 1..Len(kept) :
                           /\ kept[i].filmstock = named[i].filmstock
                           /\ kept[i].quantity = named[i].quantity)))
       /\ pc \in {"mkdir", "write"} \/ (pc = "done" /\ writes > 0)
          => With(splitlines(render), LAMBDA R :
               /\ Len(R) = IF ps.entries = <<>> THEN 0 ELSE 16 * Len(ps.entries) - 1
               /\ \A i \in 1..Len(ps.entries) :
                    R[16 * (i - 1) + 1] = Title(ps.entries[i]))

\* three headers, the first and third identical, give three entries and three
\* blocks in that order
C5_Witness ==
    /\ pc = "done"
    /\ result = "True"
    /\ output = render
    /\ Len(ps.entries) = 3
    /\ ps.entries[1] = ps.entries[3]
    /\ ps.entries[1].filmstock # ps.entries[2].filmstock
    /\ splitlines(output)[1] = splitlines(output)[33]
    /\ splitlines(output)[1] # splitlines(output)[17]

\* C6: camera invariant.  Every entry that _finalize_entry has run on has a
\* camera that is a member of KNOWN_CAMERAS or the literal "Unknown".
C6_CameraKnownOrUnknown ==
    \A i \in 1..(fin - 1) :
      ps.entries[i].camera
        \in {KNOWN_CAMERAS[k] : k \in 1..Len(KNOWN_CAMERAS)} \cup {"Unknown"}

\* a finalized entry whose free-text camera became "Unknown"
C6_Witness ==
    \E i \in 1..(fin - 1) :
      /\ ps.entries[i].camera = "Unknown"
      /\ Contains(ps.entries[i].notes, "Camera (raw): Pentax K1000")

\* C7: write_text is called at most once, and only after the count check has
\* passed; as long as it has not been called no output file exists; and every
\* step that ends convert_file from before the write step (a read error, a
\* count mismatch, a failing mkdir) ends it with no call of write_text and no
\* output file.
C7_WriteOnceAfterCheck ==
    /\ [](/\ writes <= 1
          /\ writes = 0 => output = NoFile
          /\ writes = 1 => /\ pc = "done"
                           /\ fin > Len(ps.entries)
                           /\ expected_count = Len(ps.entries))
    /\ [][(pc # "write" /\ pc' = "done") => (writes' = 0 /\ output' = NoFile)]_vars

\* a conversion that wrote its output
C7_Witness ==
    /\ pc = "done"
    /\ writes = 1
    /\ result = "True"
    /\ ps.entries # <<>>
    /\ output = render

\* C8: an expiration line whose value contains "unknown", handed to the
\* classifier of its dialect, leaves the expiration field as it was, puts
\* "Expiration info: <value>" (old dialect) or "Expiration: <value>" (new
\* dialect) at the end of notes, and an entry whose expiration was empty
\* renders the line "    - Expiration: None".
C8_ExpirationUnknown ==
    [][LET line == splitlines(content)[ln]
           text == SubContent(line)
           lcl == Lower(text)
           before == ps.current[1]
           after == ps'.current[1]
           isnew == ps.current_is_new_format
           value == IF isnew THEN Strip(SplitTail(text, ":"))
                    ELSE IF StartsWith(lcl, "expires") THEN Strip(SplitTail(text, " "))
                    ELSE Strip(ReSubPrefix(OldRe.expiration, text, TRUE))
           fragment == (IF isnew THEN "Expiration: " ELSE "Expiration info: ") \o value
       IN (/\ pc = "parse" /\ ln' = ln + 1
           /\ ps.current # <<>> /\ ps.in_subentries
           /\ StartsWith(line, "    - ") /\ ~IsNestedHeader(line)
           /\ IF isnew
              THEN Contains(text, ":") /\ Lower(Strip(SplitHead(text, ":"))) = "expiration"
              ELSE /\ StartsWith(lcl, "expiration") \/ StartsWith(lcl, "expires")
                   /\ ~ReSearch(OldRe.exposures, text, TRUE).ok
           /\ Contains(Lower(value), "unknown"))
          => /\ after.expiration = before.expiration
             /\ EndsWith(after.notes, fragment)
             /\ before.expiration = ""
                => MarkdownLines(_finalize_entry(after))[4] = "    - Expiration: None"]_vars

\* an old-dialect and a new-dialect entry, each with an "unknown" expiration
\* line, converted
C8_Witness ==
    /\ pc = "done"
    /\ result = "True"
    /\ Len(ps.entries) = 2
    /\ ps.entries[1].expiration = ""
    /\ ps.entries[1].notes = "Expiration info: unknown, likely expired"
    /\ ps.entries[2].expiration = ""
    /\ ps.entries[2].notes = "Expiration: expiration unknown, likely 2026"
    /\ splitlines(output)[4] = "    - Expiration: None"
    /\ splitlines(output)[20] = "    - Expiration: None"

\* C9: to_markdown gives 15 lines with the fixed labels in the fixed order;
\* every field but Filmstock and Developed Location shows "None" when it is
\* empty or blank and its stored value otherwise; the rendered text is the
\* blocks in order with exactly one empty line between two blocks.
C9_FifteenLines ==
    LET Labels ==
            <<"- Filmstock: ", "    - ISO: ", "    - Exposures: ", "    - Expiration: ",
              "    - Loaded Date: ", "    - Camera: ", "    - Lens: ", "    - Filter: ",
              "    - Notes: ", "    - Subject: ", "    - Shot Location: ",
              "    - Ready for Development Date: ", "    - Developed Date: ",
              "    - Developed Location: ", "    - RollNum: ">>
        Fields ==
            <<"filmstock", "iso", "exposures", "expiration", "loaded_date", "camera",
              "lens", "filter", "notes", "subject", "shot_location", "ready_date",
              "developed_date", "developed_location", "roll_num">>
        n == Len(ps.entries)
    IN With(splitlines(render), LAMBDA R :
         /\ pc \in {"mkdir", "write", "done"} /\ n = 0 => render = ""
         /\ \A i \in 1..n :
              With(splitlines(to_markdown(ps.entries[i])), LAMBDA block :
                /\ Len(block) = 15
                /\ \A k \in 1..15 : StartsWith(block[k], Labels[k])
                /\ \A k \in (2..13) \cup {15} :
                     block[k] =
                       Labels[k] \o (IF Strip(ps.entries[i][Fields[k]]) = "" THEN "None"
                                     ELSE ps.entries[i][Fields[k]])
                /\ pc \in {"mkdir", "write"} \/ (pc = "done" /\ expected_count = n)
                   => /\ Len(R) = 16 * n - 1
                      /\ \A k \in 1..15 : R[16 * (i - 1) + k] = block[k]
                      /\ i < n => R[16 * i] = ""
                      /\ i = n => /\ Len(render) > 1
                                  /\ SubSeq(render, Len(render), Len(render)) = "\n"
                                  /\ SubSeq(render, Len(render) - 1, Len(render))
                                       # "\n\n"))

\* two entries written out: one with every field blank, one with padded values
C9_Witness ==
    /\ pc = "done"
    /\ result = "True"
    /\ output = render
    /\ Len(ps.entries) = 2
    /\ ps.entries[1].iso = " "
    /\ ps.entries[2].iso = " 35mm "
    /\ splitlines(output)[2] = "    - ISO: None"
    /\ splitlines(output)[16] = ""
    /\ splitlines(output)[18] = "    - ISO:  35mm "

C11_FilmstockLine ==
    /\ [](LET Shown(q, f) == IF q = "" /\ f = "" THEN "None"
                             ELSE IF q = "" THEN f
                             ELSE IF f = "" THEN q
                             ELSE q \o " " \o f
          IN \A i \in 1..Len(ps.entries) :
               MarkdownLines(ps.entries[i])[1] =
                 "- Filmstock: " \o Shown(Strip(ps.entries[i].quantity),
                                          Strip(ps.entries[i].filmstock)))
    /\ [][LET \* the value of a header line: what follows "- Filmstock:", what
              \* stands between "- Filmstock" and the final ":", or what
              \* follows "- "
              Value(line) ==
                  LET t == Strip(From(Strip(line), 1))
                  IN IF StartsWith(t, "Filmstock:") THEN Strip(From(t, 10))
                     ELSE IF StartsWith(t, "Filmstock ") /\ EndsWith(t, ":")
                     THEN Strip(SubSeq(t, 11, Len(t) - 1))
                     ELSE t
              Qty(v) == SplitHead(v, " ")
              Rest(v) == Strip(SplitTail(v, " "))
              HasQuantity(v) ==
                  /\ Contains(v, " ")
                  /\ Len(Qty(v)) >= 2
                  /\ Ch(Qty(v), Len(Qty(v))) \in {"x", "X"}
                  /\ \A i \in 1..(Len(Qty(v)) - 1) : Ch(Qty(v), i) \in ClassSet.digit
                  /\ Rest(v) # ""
          IN (/\ pc = "parse" /\ ln' = ln + 1
              /\ Len(ps'.started) > Len(ps.started)
              /\ HasQuantity(Value(splitlines(content)[ln])))
             => With(Value(splitlines(content)[ln]), LAMBDA v :
                  /\ ps'.current[1].quantity = Qty(v)
                  /\ ps'.current[1].filmstock = Rest(v)
                  /\ MarkdownLines(ps'.current[1])[1]
                       = "- Filmstock: " \o Qty(v) \o " " \o Rest(v))]_vars

\* a new-dialect header with a quantity, converted: the quantity is back in
\* the Filmstock line of the output
C11_Witness ==
    /\ pc = "done"
    /\ result = "True"
    /\ input = FileText(<<"- Filmstock: 2x Kodak Gold">>)
    /\ ps.entries[1].quantity = "2x"
    /\ ps.entries[1].filmstock = "Kodak Gold"
    /\ splitlines(output)[1] = "- Filmstock: 2x Kodak Gold"

\* C12: finish heuristic of _canonical_camera.  An entry whose camera text is
\* just the brand "Minolta" ends with camera "Minolta SR-T101 silver"; one
\* whose camera text names the Minolta SR-T101 (spelled SR-T101, SRT101,
\* SRT-101 or SR T101, in any case) ends with "Minolta SR-T101 black" when
\* the text says "black" and with "Minolta SR-T101 silver" when it names no
\* finish.
C12_MinoltaFinish ==
    LET lines == splitlines(input)
        last == SubContent(lines[Len(lines)])
        raw == IF StartsWith(last, "Camera:") THEN Strip(From(last, 7))
               ELSE IF StartsWith(last, "shot on ") THEN Strip(From(last, 8))
               ELSE ""
        low == Lower(raw)
        family == /\ Contains(low, "minolta")
                  /\ \E m \in {"sr-t101", "srt101", "srt-101", "sr t101"} : Contains(low, m)
    IN (fin > 1 /\ Len(ps.entries) = 1 /\ raw # "")
       => /\ low = "minolta" => ps.entries[1].camera = "Minolta SR-T101 silver"
          /\ family /\ Contains(low, "black")
             => ps.entries[1].camera = "Minolta SR-T101 black"
          /\ family /\ ~Contains(low, "black")
             => ps.entries[1].camera = "Minolta SR-T101 silver"

\* an old-dialect entry shot on a "black Minolta SR-T101", converted
C12_Witness ==
    /\ pc = "done"
    /\ result = "True"
    /\ input = FileText(<<"- 1x Kodak Color Plus", "    - shot on black Minolta SR-T101">>)
    /\ ps.entries[1].camera = "Minolta SR-T101 black"
    /\ splitlines(output)[6] = "    - Camera: Minolta SR-T101 black"

\* a string of the form YYYY-MM-DD
IsIsoDate(s) ==
    /\ Len(s) = 10
    /\ Ch(s, 5) = "-" /\ Ch(s, 8) = "-"
    /\ \A i \in {1, 2, 3, 4, 6, 7, 9, 10} : Ch(s, i) \in ClassSet.digit

\* C13 (as stated): normalize_date, as the expiration branches of the two
\* classifiers apply it to the value of an expiration line.  M/D/YY and
\* M/D/YYYY (slash or dash) and YYYY-M-D give the zero-padded YYYY-MM-DD;
\* M/YYYY, also after "Expires" or "Expiration", gives the first day of the
\* month; a two-digit year yy is 20yy when yy <= 30 and 19yy otherwise; and
\* every result is "", a YYYY-MM-DD string, "Unknown", "Unknown, likely
\* YYYY", or the trimmed original text.
C13_NumericDates ==
    [][LET line == splitlines(content)[ln]
           text == SubContent(line)
           isnew == ps.current_is_new_format
           \* the text handed to normalize_date
           raw == IF isnew THEN Strip(SplitTail(text, ":"))
                  ELSE IF StartsWith(Lower(text), "expires ") THEN Strip(From(text, 8))
                  ELSE IF StartsWith(From(text, 10), ":") THEN Strip(From(text, 11))
                  ELSE Strip(From(text, 10))
           \* raw without a leading "Expires" or "Expiration"
           date == IF StartsWith(Lower(raw), "expires ") THEN Strip(From(raw, 8))
                   ELSE IF StartsWith(Lower(raw), "expiration ") THEN Strip(From(raw, 11))
                   ELSE raw
           numeric == \A k \in 1..Len(date) : Ch(date, k) \in ClassSet.digit \cup {"/", "-"}
           seps == {k \in 1..Len(date) : Ch(date, k) \in {"/", "-"}}
           p1 == CHOOSE k \in seps : \A j \in seps : k <= j
           p2 == CHOOSE k \in seps : \A j \in seps : k >= j
           a == SubSeq(date, 1, p1 - 1)
           b == SubSeq(date, p1 + 1, p2 - 1)
           c == SubSeq(date, p2 + 1, Len(date))
           Year(y) == IF Len(y) = 2 THEN (IF ToInt(y) <= 30 THEN "20" ELSE "19") \o y ELSE y
           Two(n) == Pad2(ToInt(n))
           normalized == ps'.current[1].expiration
       IN (/\ pc = "parse" /\ ln' = ln + 1
           /\ ps.current # <<>> /\ ps.in_subentries
           /\ StartsWith(line, "    - ") /\ ~IsNestedHeader(line)
           /\ IF isnew THEN StartsWith(text, "Expiration:")
              ELSE StartsWith(Lower(text), "expires ")
                   \/ StartsWith(Lower(text), "expiration")
           /\ raw # "" /\ ~Contains(Lower(raw), "unknown"))
          => /\ (/\ numeric /\ Cardinality(seps) = 2
                 /\ Len(a) \in 1..2 /\ Len(b) \in 1..2 /\ Len(c) \in {2, 4})
                => normalized = Year(c) \o "-" \o Two(a) \o "-" \o Two(b)
             /\ (/\ numeric /\ Cardinality(seps) = 2
                 /\ Ch(date, p1) = "-" /\ Ch(date, p2) = "-"
                 /\ Len(a) = 4 /\ Len(b) \in 1..2 /\ Len(c) \in 1..2)
                => normalized = a \o "-" \o Two(b) \o "-" \o Two(c)
             /\ (/\ numeric /\ Cardinality(seps) = 1
                 /\ Len(a) \in 1..2 /\ Len(c) \in {2, 4})
                => normalized = Year(c) \o "-" \o Two(a) \o "-01"
             /\ \/ normalized = ""
                \/ IsIsoDate(normalized)
                \/ normalized = "Unknown"
                \/ /\ Len(normalized) = 20
                   /\ SubSeq(normalized, 1, 16) = "Unknown, likely "
                   /\ \A i \in 17..20 : Ch(normalized, i) \in ClassSet.digit
                \/ normalized = raw]_vars

\* C14: new-dialect key mapping.  A sub-entry line "Key: Value" whose key is,
\* in any case, iso, filter, subject, shot location, developed location,
\* rollnum, roll num or roll number sets the field of that key (roll_num for
\* the three roll spellings) to the trimmed value and leaves every other field
\* of the entry as it was; a line with a key that is not known and a
\* non-empty value changes only notes, to which "Key: Value" is appended with
\* the key as written.
C14_KeyMapping ==
    [][LET line == splitlines(content)[ln]
           text == SubContent(line)
           raw_key == Strip(SplitHead(text, ":"))
           key == Lower(raw_key)
           val == Strip(SplitTail(text, ":"))
           before == ps.current[1]
           after == ps'.current[1]
           field == CASE key = "iso" -> "iso"
                      [] key = "filter" -> "filter"
                      [] key = "subject" -> "subject"
                      [] key = "shot location" -> "shot_location"
                      [] key = "developed location" -> "developed_location"
                      [] key \in {"rollnum", "roll num", "roll number"} -> "roll_num"
                      [] OTHER -> ""
           known == {"iso", "exposures", "expiration", "loaded date", "camera", "lens",
                     "filter", "notes", "subject", "shot location",
                     "ready for development date", "developed date",
                     "developed location", "rollnum", "roll num", "roll number"}
       IN (/\ pc = "parse" /\ ln' = ln + 1
           /\ ps.current # <<>> /\ ps.in_subentries /\ ps.current_is_new_format
           /\ StartsWith(line, "    - ") /\ ~IsNestedHeader(line)
           /\ Contains(text, ":"))
          => /\ field # "" => after = [before EXCEPT ![field] = val]
             /\ (key \notin known /\ val # "")
                => after = [before EXCEPT !.notes =
                              IF before.notes = "" THEN raw_key \o ": " \o val
                              ELSE before.notes \o "; " \o raw_key \o ": " \o val]]_vars

\* a new-dialect entry with a note and a "roll number" line, converted: the
\* roll number is in its field and the note is as it was
C14_Witness ==
    /\ pc = "done"
    /\ result = "True"
    /\ input = FileText(<<"- Filmstock: Kodak Gold", "    - Notes: first roll",
                          "    - roll number: 12">>)
    /\ ps.entries[1].roll_num = "12"
    /\ ps.entries[1].notes = "first roll"
    /\ splitlines(output)[15] = "    - RollNum: 12"

\* C15 (as stated): file-name conventions of apply_exif_data.  A file named
\* "0000XXXX000YY.jpg" is assigned roll number XXXX and photo number YY, and
\* a file named "XXXX_YY.tif" is assigned roll number XXXX and photo number
\* YY.
C15_FileNameConventions ==
    \A k \in 1..Len(assigned) :
      LET file == assigned[k].file
          stem == SplitHead(file, ".")
          AllDigits(t) == \A i \in 1..Len(t) : Ch(t, i) \in ClassSet.digit
      IN /\ (Len(stem) = 13 /\ AllDigits(stem) /\ SubSeq(stem, 1, 4) = "0000"
               /\ SubSeq(stem, 9, 11) = "000")
            => /\ assigned[k].roll_num = SubSeq(stem, 5, 8)
               /\ assigned[k].photo_number = ToInt(SubSeq(stem, 12, 13))
         /\ (Len(stem) \in {6, 7} /\ Ch(stem, 5) = "_" /\ AllDigits(SubSeq(stem, 1, 4))
               /\ AllDigits(SubSeq(stem, 6, Len(stem))))
            => /\ assigned[k].roll_num = SubSeq(stem, 1, 4)
               /\ assigned[k].photo_number = ToInt(SubSeq(stem, 6, Len(stem)))

\* C16 (as stated): new dialect.  For the keys Expiration, Loaded Date, Ready
\* for Development Date and Developed Date, a value that contains "unknown" or
\* that cannot be a date (it holds no digit) leaves the field of the key as it
\* was, so an empty field stays empty and renders "None", and "Key: value" is
\* appended to notes.
C16_NewDateFallback ==
    [][LET line == splitlines(content)[ln]
           text == SubContent(line)
           raw_key == Strip(SplitHead(text, ":"))
           key == Lower(raw_key)
           val == Strip(SplitTail(text, ":"))
           before == ps.current[1]
           after == ps'.current[1]
           field == CASE key = "expiration" -> "expiration"
                      [] key = "loaded date" -> "loaded_date"
                      [] key = "ready for development date" -> "ready_date"
                      [] key = "developed date" -> "developed_date"
                      [] OTHER -> ""
       IN (/\ pc = "parse" /\ ln' = ln + 1
           /\ ps.current # <<>> /\ ps.in_subentries /\ ps.current_is_new_format
           /\ StartsWith(line, "    - ") /\ ~IsNestedHeader(line)
           /\ Contains(text, ":")
           /\ field # "" /\ val # ""
           /\ \/ Contains(Lower(val), "unknown")
              \/ \A k \in 1..Len(val) : Ch(val, k) \notin ClassSet.digit)
          => /\ after[field] = before[field]
             /\ before[field] = "" => or_default(after[field]) = "None"
             /\ EndsWith(after.notes, raw_key \o ": " \o val)]_vars

\* C17 (as stated): old dialect.  A line that begins with "expires" or
\* "expiration" (and whose value is not "unknown", the case of C8) sets the
\* expiration field only when its text can hold a date (it holds a digit);
\* when it cannot, the expiration field stays as it was and the full phrase is
\* appended to notes.
C17_OldExpirationFallback ==
    [][LET line == splitlines(content)[ln]
           text == SubContent(line)
           lcl == Lower(text)
           before == ps.current[1]
           after == ps'.current[1]
           has_digit == \E k \in 1..Len(text) : Ch(text, k) \in ClassSet.digit
       IN (/\ pc = "parse" /\ ln' = ln + 1
           /\ ps.current # <<>> /\ ps.in_subentries /\ ~ps.current_is_new_format
           /\ StartsWith(line, "    - ") /\ ~IsNestedHeader(line)
           /\ StartsWith(lcl, "expires") \/ StartsWith(lcl, "expiration")
           /\ ~Contains(lcl, "unknown")
           /\ ~ReSearch(OldRe.exposures, text, TRUE).ok)
          => /\ after.expiration # before.expiration => has_digit
             /\ ~has_digit => /\ after.expiration = before.expiration
                              /\ EndsWith(after.notes, text)]_vars

\* C18 (as stated): a call of a dialect classifier on a sub-entry line has
\* exactly one outcome: it sets typed fields and leaves notes as they were, or
\* it appends to notes and sets no typed field; never both, and never neither.
\* A typed field counts as set when it changes or when the same call sets it
\* on a fresh FilmEntry.
C18_ExactlyOneOutcome ==
    [][LET line == splitlines(content)[ln]
           before == ps.current[1]
           after == ps'.current[1]
           fresh == IF ps.current_is_new_format
                    THEN _parse_new_sub_entry(line, FilmEntry)
                    ELSE _parse_old_sub_entry(line, FilmEntry)
           typed == \E f \in DOMAIN FilmEntry \ {"notes"} :
                      after[f] # before[f] \/ fresh[f] # ""
           noted == after.notes # before.notes
       IN (/\ pc = "parse" /\ ln' = ln + 1
           /\ ps.current # <<>> /\ ps.in_subentries
           /\ StartsWith(line, "    - ") /\ ~IsNestedHeader(line)
           /\ SubContent(line) # "")
          => (typed /\ ~noted) \/ (noted /\ ~typed)]_vars

\* C19 (as stated): segmenter promotion.  A line with the sub-entry prefix
\* inside an open entry opens a new entry if and only if the line without the
\* prefix is a header ("- Filmstock: VALUE", "- Filmstock VALUE:" or
\* "- <N>x <name>"); then the previous entry is flushed first and the new
\* entry has the dialect of that header.  Every other such line goes to the
\* classifier of the open entry's dialect and opens nothing.
C19_Promotion ==
    [][LET line == splitlines(content)[ln]
           header == From(line, 4)
       IN (/\ pc = "parse" /\ ln' = ln + 1
           /\ ps.current # <<>> /\ ps.in_subentries
           /\ StartsWith(line, "    - "))
          => IF IsNewHeader(header) \/ IsOldHeader(header)
             THEN /\ ps'.started = Append(ps.started, ln)
                  /\ ps'.entries = flush_current(ps.entries, ps.current)
                  /\ ps'.current_is_new_format = IsNewHeader(header)
                  /\ ps'.in_subentries
             ELSE /\ ps'.started = ps.started
                  /\ ps'.entries = ps.entries
                  /\ ps'.current_is_new_format = ps.current_is_new_format
                  /\ ps'.current =
                       <<IF ps.current_is_new_format
                         THEN _parse_new_sub_entry(line, ps.current[1])
                         ELSE _parse_old_sub_entry(line, ps.current[1])>>]_vars

\* C20 (as stated): finalizer step 2, for entries of either dialect.  When
\* the lens text of an entry names a resolvable camera, camera becomes that
\* camera; lens text that looks like a lens is kept in lens unchanged; lens
\* text that does not is cleared, and "Lens (raw contained camera): <text>" is
\* appended to notes.  The lens text is what _finalize_entry finds in lens
\* and, for a new-dialect entry, the value of its "Lens:" line.
C20_CameraInLens ==
    /\ [][(/\ pc = "finalize" /\ fin' = fin + 1
           /\ ps.entries[fin].lens # ""
           /\ _find_known_camera_in_text(ps.entries[fin].lens) # None)
          => LET e == ps.entries[fin]
                 after == ps'.entries[fin]
             IN /\ after.camera = _find_known_camera_in_text(e.lens)
                /\ _looks_like_lens(e.lens) => after.lens = e.lens
                /\ ~_looks_like_lens(e.lens)
                   => /\ after.lens = ""
                      /\ EndsWith(after.notes, "Lens (raw contained camera): " \o e.lens)]_vars
    /\ [](LET lines == splitlines(input)
              last == SubContent(lines[Len(lines)])
              text == IF StartsWith(last, "Lens:") THEN Strip(From(last, 5)) ELSE ""
          IN (/\ fin > 1 /\ Len(ps.entries) = 1 /\ Len(lines) = 2
              /\ text # "" /\ _find_known_camera_in_text(text) # None)
             => /\ ps.entries[1].camera = _find_known_camera_in_text(text)
                /\ _looks_like_lens(text) => ps.entries[1].lens = text
                /\ ~_looks_like_lens(text)
                   => /\ ps.entries[1].lens = ""
                      /\ EndsWith(ps.entries[1].notes,
                                  "Lens (raw contained camera): " \o text))

\* C21 (as stated): camera-to-location reclassification, for entries of either
\* dialect.  When the camera text begins with around/at/in (the camera field
\* that _finalize_entry finds, or the value of a new-dialect "Camera:" line),
\* camera is cleared (the finalizer then resolves the empty camera, so the
\* text is no longer the camera), "Camera (raw -> location): <text>" is
\* appended to notes, and shot_location becomes the text only if it was empty:
\* a shot_location that was set is kept.
C21_CameraToLocation ==
    [][/\ (/\ pc = "finalize" /\ fin' = fin + 1
           /\ _is_location_phrase(ps.entries[fin].camera))
          => LET e == ps.entries[fin]
                 after == ps'.entries[fin]
             IN /\ after.camera # e.camera
                /\ EndsWith(after.notes, "Camera (raw -> location): " \o e.camera)
                /\ after.shot_location =
                     IF e.shot_location = "" THEN e.camera ELSE e.shot_location
       /\ LET line == splitlines(content)[ln]
              text == SubContent(line)
              val == Strip(From(text, 7))
          IN (/\ pc = "parse" /\ ln' = ln + 1
              /\ ps.current # <<>> /\ ps.in_subentries /\ ps.current_is_new_format
              /\ StartsWith(line, "    - ") /\ StartsWith(text, "Camera:")
              /\ _is_location_phrase(val))
             => LET e == ps.current[1]
                    after == ps'.current[1]
                IN /\ after.camera = ""
                   /\ EndsWith(after.notes, "Camera (raw -> location): " \o val)
                   /\ after.shot_location =
                        IF e.shot_location = "" THEN val ELSE e.shot_location]_vars

\* C22 (as stated): finalizer ordering.  _finalize_entry checks for a location
\* phrase before it resolves the camera, so a camera text that is a location
\* phrase is never treated as a camera that cannot be resolved: the finalized
\* notes hold no "Camera (raw): <phrase>", the only fragment added for the
\* phrase is "Camera (raw -> location): <phrase>", and camera ends as
\* "Unknown" only when neither the notes nor the lens name a camera.  The
\* phrase is what _finalize_entry finds in camera; for an entry of one
\* "shot on <phrase>" or "Camera: <phrase>" line it is that line's text.
C22_LocationBeforeCamera ==
    /\ [][(/\ pc = "finalize" /\ fin' = fin + 1
           /\ _is_location_phrase(ps.entries[fin].camera))
          => LET e == ps.entries[fin]
                 after == ps'.entries[fin]
             IN /\ ~Contains(after.notes, "Camera (raw): " \o e.camera)
                /\ ~Contains(e.notes, "Camera (raw): ")
                   => ~Contains(after.notes, "Camera (raw): ")
                /\ Contains(after.notes, "Camera (raw -> location): " \o e.camera)
                /\ after.camera = "Unknown"
                   => /\ _find_known_camera_in_text(after.notes) = None
                      /\ _find_known_camera_in_text(after.lens) = None]_vars
    /\ [](LET lines == splitlines(input)
              last == SubContent(lines[Len(lines)])
              phrase == IF StartsWith(last, "Camera:") THEN Strip(From(last, 7))
                        ELSE IF StartsWith(last, "shot on ") THEN Strip(From(last, 8))
                        ELSE ""
          IN (/\ fin > 1 /\ Len(ps.entries) = 1 /\ _is_location_phrase(phrase))
             => /\ ~Contains(ps.entries[1].notes, "Camera (raw): " \o phrase)
                /\ Contains(ps.entries[1].notes, "Camera (raw -> location): " \o phrase))

\* C22 witness: an old-dialect entry whose camera text was "around town" has
\* been finalized: the text is in notes as a location and camera is "Unknown"
C22_Witness ==
    /\ pc = "finalize" /\ fin = 2
    /\ input = "- 2x Ilford HP5\n    - at the park\n    - shot on around town\n"
    /\ ps.entries[1].camera = "Unknown"
    /\ ps.entries[1].notes = "Camera (raw -> location): around town"

\* C23 (as stated): unrecognized lines.  Every non-blank line that is neither
\* a recognized header nor a line with the 4-space sub-entry prefix inside an
\* open entry is reported as an unrecognized top-level line and otherwise
\* ignored: the entries collected so far and the open entry (its notes
\* included) stay as they are, the dialect state stays as it is, and parsing
\* goes on with the next line.
C23_UnrecognizedIgnored ==
    [][LET line == splitlines(content)[ln]
       IN (/\ pc = "parse" /\ ln' = ln + 1
           /\ ~IsBlank(line) /\ ~IsNewHeader(line) /\ ~IsOldHeader(line)
           /\ ~(StartsWith(line, "    - ") /\ ps.current # <<>> /\ ps.in_subentries))
          => /\ ps'.warned = Append(ps.warned, ln)
             /\ ps'.entries = ps.entries
             /\ ps'.current = ps.current
             /\ ps'.in_subentries = ps.in_subentries
             /\ ps'.current_is_new_format = ps.current_is_new_format
             /\ pc' = "parse"]_vars

\* C24 (as stated): _canonical_camera applies its rules in this order, and the
\* first that matches decides: (a) the text (stripped, case ignored) is a
\* canonical name; (b) a canonical name is a substring of it; (c) the token
\* "n80", then "x700"/"x-700"; (d) "minolta" with an SR-T101 spelling: black
\* when "black" is in the text, else silver; (e) "minolta" alone: silver;
\* (f) "halina"; no match gives None.  For every text, empty and blank ones
\* included, the call returns, and what it returns is a member of
\* KNOWN_CAMERAS or None and depends on the text only.
C24_CanonicalOrder ==
    (pc = "done")
    => LET low == Lower(Strip(input))
           known == {KNOWN_CAMERAS[k] : k \in 1..Len(KNOWN_CAMERAS)}
           exact == {cam \in known : Lower(cam) = low}
           inside == {k \in 1..Len(KNOWN_CAMERAS) : Contains(low, Lower(KNOWN_CAMERAS[k]))}
           token == \E i \in 1..(Len(low) - 2) :
                      /\ SubSeq(low, i, i + 2) = "n80"
                      /\ (i = 1 \/ ~IsWordAt(low, i - 1))
                      /\ (i + 2 = Len(low) \/ ~IsWordAt(low, i + 3))
           family == \/ Contains(low, "sr") /\ Contains(low, "t101")
                     \/ Contains(low, "srt-101") \/ Contains(low, "srt101")
                     \/ Contains(low, "sr-t101")
           expected ==
             IF exact # {} THEN CHOOSE cam \in exact : TRUE
             ELSE IF inside # {}
             THEN KNOWN_CAMERAS[CHOOSE k \in inside : \A j \in inside : k <= j]
             ELSE IF token THEN "Nikon N80"
             ELSE IF Contains(low, "x700") \/ Contains(low, "x-700") THEN "Minolta X-700"
             ELSE IF Contains(low, "minolta") /\ family /\ Contains(low, "black")
             THEN "Minolta SR-T101 black"
             ELSE IF Contains(low, "minolta") THEN "Minolta SR-T101 silver"
             ELSE IF Contains(low, "halina") THEN "Halina 35X"
             ELSE None
       IN /\ result = expected
          /\ result \in known \cup {None}
          /\ result = _canonical_camera(input)

\* C24 witness: a text that names two cameras has been resolved by the
\* substring rule, ahead of the "n80" token
C24_Witness ==
    /\ pc = "done"
    /\ input = "my Halina 35X n80 body"
    /\ result = "Halina 35X"

\* C25 (as stated): flush rule.  When an open entry is flushed (a header
\* opens the next entry, or the input ends), it is appended to the result
\* exactly when one of filmstock, quantity and notes is non-empty; it is
\* discarded only when all three are empty, and a discarded entry has no other
\* field set.
C25_FlushRule ==
    [][(/\ pc = "parse" /\ ps.current # <<>>
        /\ ps'.started # ps.started \/ pc' = "finalize")
       => LET cur == ps.current[1]
              content_kept == cur.filmstock # "" \/ cur.quantity # "" \/ cur.notes # ""
          IN /\ content_kept => ps'.entries = Append(ps.entries, cur)
             /\ ~content_kept => /\ ps'.entries = ps.entries
                                 /\ cur = FilmEntry]_vars

\* C26 (as stated): notes is append-only.  Across every step that touches an
\* entry (a line handed to either classifier, a line without the sub-entry
\* prefix added by the segmenter, the finalizer) the notes before the step are
\* a prefix of the notes after it, and what is added to non-empty notes starts
\* with "; ".  Fragments therefore stay in the order of their lines, with the
\* finalizer's notes last.
C26_NotesAppendOnly ==
    [][/\ (/\ pc = "parse" /\ ln' = ln + 1
           /\ ps.current # <<>> /\ ps'.started = ps.started)
          => LET before == ps.current[1].notes
                 after == ps'.current[1].notes
             IN \/ after = before
                \/ before = ""
                \/ StartsWith(after, before \o "; ")
       /\ (pc = "finalize" /\ fin' = fin + 1)
          => LET before == ps.entries[fin].notes
                 after == ps'.entries[fin].notes
             IN \/ after = before
                \/ before = ""
                \/ StartsWith(after, before \o "; ")]_vars

\* C27 (as stated): every line counted by count_input_entries yields exactly
\* one entry of parse_entries.  For a document none of whose header lines has
\* more than 3 leading spaces, count_input_entries(content) equals the number
\* of entries parse_entries returns, also when a header has an empty stock
\* name and no notes are collected for it.
C27_CountEqualsParsed ==
    LET lines == splitlines(input)
        deep_header == \E k \in 1..Len(lines) :
                         StartsWith(lines[k], "    ") /\ IsNestedHeader(lines[k])
    IN (pc \in {"finalize", "render", "mkdir", "write"} /\ ~deep_header)
       => /\ expected_count = count_input_entries(input)
          /\ expected_count = Len(ps.entries)

\* C28 (as stated): _finalize_entry is idempotent on what parsing already
\* normalized.  Applied to a new-dialect entry whose camera is "Unknown" or a
\* canonical name (and whose lens names no camera), it changes neither camera
\* nor notes.
\* So a new-dialect entry whose last line is "Camera: <text>", with a text
\* that is no location phrase and no known camera, ends with exactly one
\* "Camera (raw): ..." fragment in notes, which carries the text.
C28_FinalizeIdempotent ==
    /\ [][(/\ pc = "finalize" /\ fin' = fin + 1 /\ ps.current_is_new_format
           /\ \/ ps.entries[fin].camera = "Unknown"
              \/ \E k \in 1..Len(KNOWN_CAMERAS) : ps.entries[fin].camera = KNOWN_CAMERAS[k]
           /\ _find_known_camera_in_text(ps.entries[fin].lens) = None)
          => /\ ps'.entries[fin].camera = ps.entries[fin].camera
             /\ ps'.entries[fin].notes = ps.entries[fin].notes]_vars
    /\ [](LET lines == splitlines(input)
              last == SubContent(lines[Len(lines)])
              text == Strip(From(last, 7))
              notes == ps.entries[1].notes
              raw == "Camera (raw): "
          IN (/\ fin > 1 /\ Len(ps.entries) = 1 /\ ps.current_is_new_format
              /\ StartsWith(last, "Camera:") /\ text # ""
              /\ ~_is_location_phrase(text) /\ _canonical_camera(text) = None)
             => /\ EndsWith(notes, raw \o text)
                /\ FindFrom(notes, raw, Find(notes, raw) + 1) = 0)

\* C29 (as stated): parse_markdown of the EXIF writer.  The list it returns
\* holds exactly one roll per "- Filmstock:" header line (indented or not), in
\* input order, and its length equals count_rolls, the number of header lines
\* counted at the start: field lines before the first header and indented
\* header lines neither add a roll nor lose one.  Every roll returned has the
\* 12 keys, each with a non-empty value.
C29_OneRollPerHeader ==
    (exif_pc = "returned")
    => LET lines == splitlines(markdown_content)
           headers == {k \in 1..Len(lines) : StartsWith(Strip(lines[k]), "- Filmstock:")}
           header(i) == lines[CHOOSE k \in headers :
                                Cardinality({j \in headers : j < k}) = i - 1]
           stock(i) == Strip(SplitTail(header(i), ":"))
           keys == {"FilmStock", "ISO", "LoadDate", "Camera", "Lens", "Filter", "Notes",
                    "Subject", "ShotLocation", "FilmProcessedDate", "DevelopedBy",
                    "RollNum"}
       IN /\ Len(film_rolls) = Cardinality(headers)
          /\ Len(film_rolls) = count_rolls(lines)
          /\ Len(film_rolls) = Cardinality(headers)
             => \A i \in 1..Len(film_rolls) :
                  stock(i) # "" => film_rolls[i]["FilmStock"] = stock(i)
          /\ \A i \in 1..Len(film_rolls) :
               /\ DOMAIN film_rolls[i] = keys
               /\ \A key \in keys : Strip(film_rolls[i][key]) # ""


\* C30: in apply_exif_data no two write_exif_file tasks have the exif.txt of
\* the directory open for writing at the same time, and when apply_exif_data
\* has returned after processing some file, exif.txt holds the whole 11-line
\* record of exactly one roll
C30_ExifTxtWhole ==
    /\ Cardinality({i \in DOMAIN tasks : /\ tasks[i].fn = "write_exif_file"
                                         /\ tasks[i].state = "open"}) <= 1
    /\ (exif_pc = "returned" /\ processed_files > 0)
       => Cardinality({k \in 1..Len(roll_dicts) :
                         exif_txt = ExifRecord(roll_dicts[k])}) = 1

=============================================================================
